---- MODULE Spec2Model ----
(***************************************************************************)
(* ESP32 / BME280 temperature monitor.                                     *)
(*                                                                         *)
(* Part 1 (specification Spec): the alert evaluator of main/alert_eval.c   *)
(* (sms_eval_alert, its two cooldown flags and its two esp_timer one-shot  *)
(* timers) run by one polling task, interleaved statement by statement     *)
(* with the esp_timer task that dispatches the expiry callbacks.           *)
(*                                                                         *)
(* Part 2 (specifications SpecInit, FairInit): the sensor bring-up of       *)
(* app_main.  Part 3 (SpecApp, SpecLoop, FairLoop): the polling loop with  *)
(* the calls of sms_eval_alert it makes.  SpecCalib and SpecRaw run the    *)
(* two decoders of main/bme280.c on sampled register contents.             *)
(*                                                                         *)
(* Part 4: SpecComp runs the three compensation formulas in exact          *)
(* arithmetic on devices and samples that reach their tests; SpecI2c runs  *)
(* i2c_read_bytes statement by statement; SpecReady runs app_main from its *)
(* startup waits on, with network and clock as the environment; SpecFetch  *)
(* runs the buffer handling of fetch_outside_current.                      *)
(*                                                                         *)
(* Temperatures are integers in tenths of a degree Celsius (15.0 = 150).   *)
(* Time is counted in model ticks; Resolution ticks make 30 minutes.       *)
(***************************************************************************)
EXTENDS Integers, Naturals, Sequences, FiniteSets, TLC

\* ------------------------------------------------------------------ bounds
\* Model clock ticks per 30 minutes.
Resolution == 2
\* How far (in tenths of a degree) the temperature grid reaches below
\* ALERT_LOW_C and above ALERT_HIGH_C.
Margin == 10

\* ------------------------------------------------- alert_eval.c constants
ALERT_LOW_C == 150
WARN_LOW_C == 165
WARN_HIGH_C == 285
ALERT_HIGH_C == 300

\* Timer durations, in model ticks.
THIRTY_MIN_US == Resolution
ONE_HOUR_US == 2 * Resolution

\* The temperatures sms_eval_alert is called with.
Temps == (ALERT_LOW_C - Margin) .. (ALERT_HIGH_C + Margin)

\* No call in progress: T_C holds no argument.
NoArg == ALERT_LOW_C - Margin - 1

TimerIds == {"A", "B"}
ESP_OK == "ESP_OK"
ESP_FAIL == "ESP_FAIL"
ESP_ERR_HTTP_CONNECT == "ESP_ERR_HTTP_CONNECT"
\* What sms_send_alert can return: ESP_OK, the error of
\* esp_http_client_perform, or ESP_FAIL (no handle, non-2xx status).
SmsResults == {ESP_OK, ESP_FAIL, ESP_ERR_HTTP_CONNECT}

VARIABLES
    a_tick,     \* warning cooldown flag (TRUE = suppressed = gate closed)
    b_tick,     \* alert cooldown flag
    a_handle,   \* "NULL" or the id of the timer created with callback_timer_A
    b_handle,   \* "NULL" or the id of the timer created with callback_timer_B
    timers,     \* esp_timer state: id -> [created, armed, left, dispatched]
    pc,         \* position of the polling task inside sms_eval_alert
    T_C,        \* argument of the call in progress (NoArg when none)
    k,          \* number (1..4) of the if statement reached or taken
    msg,        \* the local buffer msg: which text snprintf wrote ("" none)
    ret,        \* value returned by the call ("" while it runs)
    sent,       \* texts handed to sms_send_alert during the call in progress
    sms_result, \* what the last sms_send_alert of this call returned
    closed,     \* flags this call set to 1
    armed,      \* timers this call started
    rd,         \* flag value read by each if of this call ("" = not reached)
    gate0,      \* <<a_tick, b_tick>> when the call was entered
    cbRan,      \* expiry callbacks that ran while the call was in progress
    app_pc,     \* position of app_main in the sensor bring-up
    id,         \* bme280_init: the local id (chip id read from 0xD0)
    status,     \* bme280_init: the local status of the current poll
    init_ret,   \* what bme280_init returned ("" before it returns)
    bus,        \* the I2C transactions of the bring-up, in order
    polls,      \* status polls done by bme280_init (counted up to MaxPolls)
    settled,    \* bme280_init has taken the delay that follows the reset
    dev,        \* the sensor's calibration registers: [blk1, blk2]
    calib,      \* the global calib of bme280.c
    t_fine,     \* the global t_fine of bme280.c
    d,          \* bme280_read_raw: the local d[8] (<<>> before the first read)
    raw_T,      \* app_main: the locals raw_T, raw_P, raw_H
    raw_P,
    raw_H,
    main_T_C,   \* app_main: the local T_C, in tenths of a degree
    P_in,       \* what BME280_compensate_P_double read: [adc, t_fine]
    H_in,       \* what bme280_compensate_H_double read: [adc, t_fine]
    P_Pa,       \* app_main: the local P_Pa, in sixteenths of a pascal
    H_RH,       \* app_main: the local H_RH, in units of 2^-19 percent
    prev,       \* the sample and the outputs of the iteration published last
    web,        \* the reading last given to web_set_readings (NoWeb if none)
    sms,        \* app_main: the local sms ("" before the first call)
    steps,      \* statements of the current loop iteration done so far
    cycle_bus,  \* I2C transactions of the current loop iteration
    raw_ret,    \* status of the last raw burst read ("" before the first)
    s_net_ready,    \* app_main: the flags set once before the bring-up
    s_time_ready,
    rd_pc,      \* i2c_read_bytes: position of the call in progress
    rd_arg,     \* i2c_read_bytes: [device_addr, register_addr, len]
    cmd,        \* i2c_read_bytes: the command link, as queued so far
    begun,      \* command links handed to i2c_master_cmd_begin by the call
    rd_ret,     \* i2c_read_bytes: the value returned ("" while it runs)
    net_up,     \* what have_ip() returns now
    time_ok,    \* what time_is_set() returns now
    wait_i,     \* app_main: the counter i of the startup wait in progress
    f_pc,       \* fetch_outside_current: position of the call in progress
    content_len,    \* fetch_outside_current: the local content_len
    cap,        \* fetch_outside_current: the local cap (size of buf)
    total,      \* fetch_outside_current: the local total
    reads,      \* [total, cap] at each esp_http_client_read of the call
    closer      \* per gate: the if whose body closed it (0 while it is open)

alertVars == <<a_tick, b_tick, a_handle, b_handle, timers, pc, T_C, k, msg,
               ret, sent, sms_result, closed, armed, rd, gate0, cbRan>>
appVars == <<app_pc, id, status, init_ret, bus, polls, settled>>
loopVars == <<dev, calib, t_fine, d, raw_T, raw_P, raw_H, main_T_C, P_in, H_in,
              P_Pa, H_RH, prev, web, sms, steps, cycle_bus, raw_ret, s_net_ready, s_time_ready>>
i2cVars == <<rd_pc, rd_arg, cmd, begun, rd_ret>>
envVars == <<net_up, time_ok, wait_i>>
fetchVars == <<f_pc, content_len, cap, total, reads>>
auxVars == <<i2cVars, envVars, fetchVars, closer>>
vars == <<alertVars, appVars, loopVars, auxVars>>

shared == <<a_tick, b_tick, a_handle, b_handle, timers>>
frame == <<T_C, k, msg, ret, sent, sms_result, closed, armed, rd, gate0>>

\* ------------------------------------------------------ esp_timer library
NewTimer == [created |-> FALSE, armed |-> FALSE, left |-> 0, dispatched |-> 0]

\* esp_timer_create: the timer exists, not armed.
esp_timer_create(tm, tid) == [tm EXCEPT ![tid].created = TRUE]

\* esp_timer_start_once succeeds on a created timer that is not armed, and
\* returns ESP_ERR_INVALID_STATE on one that is already running.
esp_timer_start_once_ok(tm, tid) == tm[tid].created /\ ~tm[tid].armed

esp_timer_start_once(tm, tid, timeout_us) ==
    [tm EXCEPT ![tid].armed = TRUE, ![tid].left = timeout_us]

\* ------------------------------------------------------- sms_eval_alert
\* The temperature part of each if condition.
\* Faulty variant: the upper boundary of the cold warning excluded.
ColdWarning_Exclusive(T) == T > ALERT_LOW_C /\ T < WARN_LOW_C

ColdWarning(T) == T > ALERT_LOW_C /\ T <= WARN_LOW_C
ColdAlert(T) == T <= ALERT_LOW_C
HotWarning(T) == T >= WARN_HIGH_C /\ T < ALERT_HIGH_C
HotAlert(T) == T >= ALERT_HIGH_C

TempCond(i, T) ==
    CASE i = 1 -> ColdWarning(T)
      [] i = 2 -> ColdAlert(T)
      [] i = 3 -> HotWarning(T)
      [] i = 4 -> HotAlert(T)

\* The flag each if reads and its body sets, the timer its body starts.
\* Faulty variant: warnings and alerts share the flag and timer A.
GateOf_Shared(i) == "A"

\* Faulty variant: the hot warning uses the flag and timer of the alerts.
GateOf_Split(i) == IF i = 1 THEN "A" ELSE "B"

GateOf(i) == IF i \in {1, 3} THEN "A" ELSE "B"
Tick(tid) == IF tid = "A" THEN a_tick ELSE b_tick
HandleOf(tid) == IF tid = "A" THEN a_handle ELSE b_handle
DurationOf(i) == IF i \in {1, 3} THEN THIRTY_MIN_US ELSE ONE_HOUR_US
TextOf(i) ==
    CASE i = 1 -> "Cold Warning"
      [] i = 2 -> "Cold Alert"
      [] i = 3 -> "Hot Warning"
      [] i = 4 -> "Hot Alert"

InitAlert ==
    /\ a_tick = FALSE
    /\ b_tick = FALSE
    /\ a_handle = "NULL"
    /\ b_handle = "NULL"
    /\ timers = [tid \in TimerIds |-> NewTimer]
    /\ pc = "idle"
    /\ T_C = NoArg
    /\ k = 0
    /\ msg = ""
    /\ ret = ""
    /\ sent = <<>>
    /\ sms_result = ""
    /\ closed = {}
    /\ armed = {}
    /\ rd = [i \in 1..4 |-> ""]
    /\ gate0 = <<FALSE, FALSE>>
    /\ cbRan = {}

\* A call of sms_eval_alert(t) begins: a new frame, the shared state as it is.
CallFrame(t) ==
    /\ pc = "idle"
    /\ pc' = "entry"
    /\ T_C' = t
    /\ k' = 0
    /\ msg' = ""
    /\ ret' = ""
    /\ sent' = <<>>
    /\ sms_result' = ""
    /\ closed' = {}
    /\ armed' = {}
    /\ rd' = [i \in 1..4 |-> ""]
    /\ gate0' = <<a_tick, b_tick>>
    /\ cbRan' = {}
    /\ UNCHANGED shared

\* The polling task calls sms_eval_alert(t).
Call(t) ==
    /\ CallFrame(t)
    /\ UNCHANGED <<appVars, loopVars, auxVars>>

\* Lines 109-111 with timers_init: both timers are created on the first call;
\* ESP_ERROR_CHECK aborts when a creation fails.
timers_init(outcome) ==
    CASE outcome = "ok" ->
            /\ timers' = esp_timer_create(esp_timer_create(timers, "A"), "B")
            /\ a_handle' = "A"
            /\ b_handle' = "B"
            /\ pc' = "if"
      [] outcome = "failA" ->
            /\ pc' = "abort"
            /\ UNCHANGED <<timers, a_handle, b_handle>>
      [] outcome = "failB" ->
            /\ timers' = esp_timer_create(timers, "A")
            /\ a_handle' = "A"
            /\ pc' = "abort"
            /\ UNCHANGED b_handle

Entry ==
    /\ pc = "entry"
    /\ IF a_handle = "NULL" \/ b_handle = "NULL"
       THEN \E outcome \in {"ok", "failA", "failB"} : timers_init(outcome)
       ELSE pc' = "if" /\ UNCHANGED <<timers, a_handle, b_handle>>
    /\ k' = 1
    /\ UNCHANGED <<a_tick, b_tick, T_C, msg, ret, sent, sms_result, closed,
                   armed, rd, gate0, cbRan>>
    /\ UNCHANGED <<appVars, loopVars, auxVars>>

\* One if statement: read the flag, test the temperature; on a match format
\* the message and enter the body, otherwise go on to the next if (after the
\* fourth: return ESP_OK).
IfStep ==
    /\ pc = "if"
    /\ rd' = [rd EXCEPT ![k] = IF Tick(GateOf(k)) THEN "closed" ELSE "open"]
    /\ IF ~Tick(GateOf(k)) /\ TempCond(k, T_C)
       THEN /\ msg' = TextOf(k)
            /\ pc' = "close"
            /\ UNCHANGED <<k, ret>>
       ELSE IF k < 4
            THEN k' = k + 1 /\ UNCHANGED <<pc, msg, ret>>
            ELSE pc' = "ret" /\ ret' = ESP_OK /\ UNCHANGED <<k, msg>>
    /\ UNCHANGED <<shared, T_C, sent, sms_result, closed, armed, gate0, cbRan>>
    /\ UNCHANGED <<appVars, loopVars, auxVars>>

\* Faulty variant: the body forgets to set its flag.
CloseStep_NoFlag ==
    /\ pc = "close"
    /\ pc' = "arm"
    /\ UNCHANGED <<a_tick, b_tick, a_handle, b_handle, timers, T_C, k, msg,
                   ret, sent, sms_result, closed, armed, rd, gate0, cbRan>>
    /\ UNCHANGED <<appVars, loopVars, auxVars>>

\* a_tick = 1 or b_tick = 1.
CloseStep ==
    /\ pc = "close"
    /\ IF GateOf(k) = "A"
       THEN a_tick' = TRUE /\ UNCHANGED b_tick
       ELSE b_tick' = TRUE /\ UNCHANGED a_tick
    /\ closed' = closed \cup {GateOf(k)}
    /\ closer' = [closer EXCEPT ![GateOf(k)] = k]
    /\ pc' = "arm"
    /\ UNCHANGED <<a_handle, b_handle, timers, T_C, k, msg, ret, sent,
                   sms_result, armed, rd, gate0, cbRan>>
    /\ UNCHANGED <<appVars, loopVars, i2cVars, envVars, fetchVars>>

\* Faulty variant: the body does not start its timer.
ArmStep_Skipped ==
    /\ pc = "arm"
    /\ pc' = "send"
    /\ UNCHANGED <<a_tick, b_tick, a_handle, b_handle, timers, T_C, k, msg,
                   ret, sent, sms_result, closed, armed, rd, gate0, cbRan>>
    /\ UNCHANGED <<appVars, loopVars, auxVars>>

\* ESP_ERROR_CHECK(esp_timer_start_once(handle, duration)).
ArmStep ==
    /\ pc = "arm"
    /\ IF esp_timer_start_once_ok(timers, HandleOf(GateOf(k)))
       THEN /\ timers' = esp_timer_start_once(timers, HandleOf(GateOf(k)),
                                              DurationOf(k))
            /\ armed' = armed \cup {HandleOf(GateOf(k))}
            /\ pc' = "send"
       ELSE pc' = "abort" /\ UNCHANGED <<timers, armed>>
    /\ UNCHANGED <<a_tick, b_tick, a_handle, b_handle, T_C, k, msg, ret, sent,
                   sms_result, closed, rd, gate0, cbRan>>
    /\ UNCHANGED <<appVars, loopVars, auxVars>>

\* Faulty variant: a failed send is tried a second time within the call.
SendStep_Retry ==
    /\ pc = "send"
    /\ \E r1 \in SmsResults, r2 \in SmsResults :
          /\ sms_result' = IF r1 = ESP_OK THEN r1 ELSE r2
          /\ ret' = IF r1 = ESP_OK THEN r1 ELSE r2
          /\ sent' = IF r1 = ESP_OK THEN Append(sent, msg)
                     ELSE Append(Append(sent, msg), msg)
    /\ pc' = "ret"
    /\ UNCHANGED <<shared, T_C, k, msg, closed, armed, rd, gate0, cbRan>>
    /\ UNCHANGED <<appVars, loopVars, auxVars>>

\* return sms_send_alert(msg): the transport's result is the call's result.
SendStep ==
    /\ pc = "send"
    /\ \E r \in SmsResults :
          /\ sms_result' = r
          /\ ret' = r
    /\ sent' = Append(sent, msg)
    /\ pc' = "ret"
    /\ UNCHANGED <<shared, T_C, k, msg, closed, armed, rd, gate0, cbRan>>
    /\ UNCHANGED <<appVars, loopVars, auxVars>>

\* Faulty variant: a call that found the temperature in range reopens both
\* gates (a cooldown that ends with the condition).
Return_Reopen ==
    /\ pc = "ret"
    /\ pc' = "idle"
    /\ T_C' = NoArg
    /\ IF T_C > WARN_LOW_C /\ T_C < WARN_HIGH_C
       THEN a_tick' = FALSE /\ b_tick' = FALSE
       ELSE UNCHANGED <<a_tick, b_tick>>
    /\ UNCHANGED <<a_handle, b_handle, timers, k, msg, ret, sent, sms_result,
                   closed, armed, rd, gate0, cbRan>>
    /\ UNCHANGED <<appVars, loopVars, auxVars>>

\* The call is over; its frame is gone.
Return ==
    /\ pc = "ret"
    /\ pc' = "idle"
    /\ T_C' = NoArg
    /\ UNCHANGED <<shared, k, msg, ret, sent, sms_result, closed, armed, rd,
                   gate0, cbRan>>
    /\ UNCHANGED <<appVars, loopVars, auxVars>>

sms_eval_alert == Entry \/ IfStep \/ CloseStep \/ ArmStep \/ SendStep \/ Return

\* ------------------------------------------------------ esp_timer task
\* One model tick of time passes for every armed timer.  A call lasts seconds
\* at most (the HTTP timeout is 10 s), so ticks fall between calls; a due
\* timer is dispatched before more time passes.
TimePasses ==
    /\ pc = "idle"
    /\ \E tid \in TimerIds : timers[tid].armed
    /\ \A tid \in TimerIds : timers[tid].armed => timers[tid].left > 0
    /\ timers' = [tid \in TimerIds |->
                    IF timers[tid].armed
                    THEN [timers[tid] EXCEPT !.left = @ - 1]
                    ELSE timers[tid]]
    /\ UNCHANGED <<a_tick, b_tick, a_handle, b_handle, pc, frame, cbRan>>
    /\ UNCHANGED <<appVars, loopVars, auxVars>>

\* Faulty variant: a due timer is dropped without its callback being run.
Expire_Lost(tid) ==
    /\ pc # "abort"
    /\ timers[tid].armed
    /\ timers[tid].left = 0
    /\ timers' = [timers EXCEPT ![tid].armed = FALSE]
    /\ UNCHANGED <<a_tick, b_tick, a_handle, b_handle, pc, frame, cbRan>>
    /\ UNCHANGED <<appVars, loopVars, auxVars>>

\* Faulty variant: the timer is periodic, it stays armed for another period
\* when it fires.
Expire_Periodic(tid) ==
    /\ pc # "abort"
    /\ timers[tid].armed
    /\ timers[tid].left = 0
    /\ timers' = [timers EXCEPT ![tid].left = THIRTY_MIN_US,
                                ![tid].dispatched = @ + 1]
    /\ UNCHANGED <<a_tick, b_tick, a_handle, b_handle, pc, frame, cbRan>>
    /\ UNCHANGED <<appVars, loopVars, auxVars>>

\* The timer task takes a due one-shot timer off its list (it is no longer
\* armed) and is about to run its callback.
Expire(tid) ==
    /\ pc # "abort"
    /\ timers[tid].armed
    /\ timers[tid].left = 0
    /\ timers' = [timers EXCEPT ![tid].armed = FALSE, ![tid].dispatched = @ + 1]
    /\ UNCHANGED <<a_tick, b_tick, a_handle, b_handle, pc, frame, cbRan>>
    /\ UNCHANGED <<appVars, loopVars, auxVars>>

InCall == pc \notin {"idle", "abort"}

\* Faulty variant: the warning callback clears both flags.
callback_timer_A_Both ==
    /\ pc # "abort"
    /\ timers["A"].dispatched > 0
    /\ a_tick' = FALSE
    /\ b_tick' = FALSE
    /\ timers' = [timers EXCEPT !["A"].dispatched = @ - 1]
    /\ cbRan' = IF pc \notin {"idle", "abort"} THEN cbRan \cup {"A"} ELSE cbRan
    /\ UNCHANGED <<a_handle, b_handle, pc, frame>>
    /\ UNCHANGED <<appVars, loopVars, i2cVars, envVars, fetchVars>>
    /\ closer' = [tid \in TimerIds |-> 0]

callback_timer_A ==
    /\ pc # "abort"
    /\ timers["A"].dispatched > 0
    /\ a_tick' = FALSE
    /\ timers' = [timers EXCEPT !["A"].dispatched = @ - 1]
    /\ cbRan' = IF InCall THEN cbRan \cup {"A"} ELSE cbRan
    /\ UNCHANGED <<b_tick, a_handle, b_handle, pc, frame>>
    /\ UNCHANGED <<appVars, loopVars, i2cVars, envVars, fetchVars>>
    /\ closer' = [closer EXCEPT !["A"] = 0]

callback_timer_B ==
    /\ pc # "abort"
    /\ timers["B"].dispatched > 0
    /\ b_tick' = FALSE
    /\ timers' = [timers EXCEPT !["B"].dispatched = @ - 1]
    /\ cbRan' = IF InCall THEN cbRan \cup {"B"} ELSE cbRan
    /\ UNCHANGED <<a_tick, a_handle, b_handle, pc, frame>>
    /\ UNCHANGED <<appVars, loopVars, i2cVars, envVars, fetchVars>>
    /\ closer' = [closer EXCEPT !["B"] = 0]

\* ===================================================== sensor bring-up
\* Part 2 (specification SpecInit): app_main from bme280_init to the entry
\* of the polling loop, one I2C transaction per step.  Every transaction's
\* status and data are chosen by the bus; ESP_ERROR_CHECK aborts the program
\* on any status other than ESP_OK.

\* Most status polls bme280_init is followed through.
MaxPolls == 3

\* bme280.h register map.
BME280_REG_ID == 208
BME280_CHIP_ID == 96
BME280_REG_RESET == 224
BME280_RESET_CMD == 182
BME280_REG_STATUS == 243
CTRL_HUM == 242
CTRL_VAL1 == 3
CTRL_MEAS == 244
CTRL_VAL2 == 111
CTRL_CONF == 245
CTRL_VAL3 == 168
\* bme280_read_calibration: the two blocks it reads.
CALIB_BLOCK1 == 136
CALIB_LEN1 == 26
CALIB_BLOCK2 == 225
CALIB_LEN2 == 7

Byte == 0 .. 255
ESP_ERR_TIMEOUT == "ESP_ERR_TIMEOUT"
\* What i2c_master_cmd_begin can return.
I2cResults == {ESP_OK, ESP_FAIL, ESP_ERR_TIMEOUT}

\* Entries of the bus log.
i2c_read_bytes(register_addr, len) ==
    [op |-> "read", reg |-> register_addr, arg |-> len]
i2c_write_u8(register_addr, val) ==
    [op |-> "write", reg |-> register_addr, arg |-> val]

\* ===================================================== bytes and words
\* C integer operations on the unsigned values of bytes and words.
RECURSIVE BitAnd(_, _)
BitAnd(a, b) ==
    IF a = 0 \/ b = 0 THEN 0
    ELSE (a % 2) * (b % 2) + 2 * BitAnd(a \div 2, b \div 2)

RECURSIVE BitOr(_, _)
BitOr(a, b) ==
    IF a = 0 THEN b
    ELSE IF b = 0 THEN a
    ELSE (IF a % 2 = 1 \/ b % 2 = 1 THEN 1 ELSE 0) + 2 * BitOr(a \div 2, b \div 2)

Shl(a, n) == a * 2^n
Shr(a, n) == a \div 2^n

\* The casts (uint16_t), (int16_t) and (int8_t).
U16(x) == x % 65536
I16(x) == IF x % 65536 >= 32768 THEN (x % 65536) - 65536 ELSE x % 65536
I8(x) == IF x % 256 >= 128 THEN (x % 256) - 256 ELSE x % 256

\* buf[i] with the index of the C source (from 0).
At(buf, i) == buf[i + 1]

\* (buf[i + 1] << 8) | buf[i]
Word(buf, i) == BitOr(Shl(At(buf, i + 1), 8), At(buf, i))

\* Faulty variant: bit 11 is not propagated.
sign_extend_12_Plain(v) == I16(v)

\* sign_extend_12: if (v & 0x0800) v |= 0xF000; return (int16_t)v;
sign_extend_12(v) ==
    I16(IF BitAnd(v, 2048) # 0 THEN BitOr(v, 61440) ELSE v)

\* The locals raw_h4 and raw_h5 of bme280_read_calibration.
raw_h4(buf2) == U16(BitOr(Shl(At(buf2, 3), 4), BitAnd(At(buf2, 4), 15)))
raw_h5(buf2) == U16(BitOr(Shl(At(buf2, 5), 4), Shr(At(buf2, 4), 4)))

\* The global calib before bme280_read_calibration (static storage: zero).
ZeroCalib ==
    [dig_T1 |-> 0, dig_T2 |-> 0, dig_T3 |-> 0,
     dig_P1 |-> 0, dig_P2 |-> 0, dig_P3 |-> 0, dig_P4 |-> 0, dig_P5 |-> 0,
     dig_P6 |-> 0, dig_P7 |-> 0, dig_P8 |-> 0, dig_P9 |-> 0,
     dig_H1 |-> 0, dig_H2 |-> 0, dig_H3 |-> 0, dig_H4 |-> 0, dig_H5 |-> 0,
     dig_H6 |-> 0]

\* Faulty variant: dig_H1 is taken from the reserved register 0xA0.
DecodeBlock1_Reserved(c, buf1) ==
    [c EXCEPT !.dig_T1 = U16(Word(buf1, 0)),
              !.dig_T2 = I16(Word(buf1, 2)),
              !.dig_T3 = I16(Word(buf1, 4)),
              !.dig_P1 = U16(Word(buf1, 6)),
              !.dig_P2 = I16(Word(buf1, 8)),
              !.dig_P3 = I16(Word(buf1, 10)),
              !.dig_P4 = I16(Word(buf1, 12)),
              !.dig_P5 = I16(Word(buf1, 14)),
              !.dig_P6 = I16(Word(buf1, 16)),
              !.dig_P7 = I16(Word(buf1, 18)),
              !.dig_P8 = I16(Word(buf1, 20)),
              !.dig_P9 = I16(Word(buf1, 22)),
              !.dig_H1 = At(buf1, 24)]

\* bme280_read_calibration, the assignments from buf1 (0x88 .. 0xA1).
DecodeBlock1(c, buf1) ==
    [c EXCEPT !.dig_T1 = U16(Word(buf1, 0)),
              !.dig_T2 = I16(Word(buf1, 2)),
              !.dig_T3 = I16(Word(buf1, 4)),
              !.dig_P1 = U16(Word(buf1, 6)),
              !.dig_P2 = I16(Word(buf1, 8)),
              !.dig_P3 = I16(Word(buf1, 10)),
              !.dig_P4 = I16(Word(buf1, 12)),
              !.dig_P5 = I16(Word(buf1, 14)),
              !.dig_P6 = I16(Word(buf1, 16)),
              !.dig_P7 = I16(Word(buf1, 18)),
              !.dig_P8 = I16(Word(buf1, 20)),
              !.dig_P9 = I16(Word(buf1, 22)),
              !.dig_H1 = At(buf1, 25)]

\* bme280_read_calibration, the assignments from buf2 (0xE1 .. 0xE7).
DecodeBlock2(c, buf2) ==
    [c EXCEPT !.dig_H2 = I16(Word(buf2, 0)),
              !.dig_H3 = At(buf2, 2),
              !.dig_H4 = sign_extend_12(raw_h4(buf2)),
              !.dig_H5 = sign_extend_12(raw_h5(buf2)),
              !.dig_H6 = I8(At(buf2, 6))]

\* Faulty variant: the low nibble of d[2] and d[5] is taken for xlsb.
AdcOf_LowNibble(d8) ==
    [adc_P |-> BitOr(BitOr(Shl(At(d8, 0), 12), Shl(At(d8, 1), 4)),
                     BitAnd(At(d8, 2), 15)),
     adc_T |-> BitOr(BitOr(Shl(At(d8, 3), 12), Shl(At(d8, 4), 4)),
                     BitAnd(At(d8, 5), 15)),
     adc_H |-> BitOr(Shl(At(d8, 6), 8), At(d8, 7))]

\* bme280_read_raw, the three values unpacked from the burst d[0..7].
AdcOf(d8) ==
    [adc_P |-> BitOr(BitOr(Shl(At(d8, 0), 12), Shl(At(d8, 1), 4)),
                     Shr(At(d8, 2), 4)),
     adc_T |-> BitOr(BitOr(Shl(At(d8, 3), 12), Shl(At(d8, 4), 4)),
                     Shr(At(d8, 5), 4)),
     adc_H |-> BitOr(Shl(At(d8, 6), 8), At(d8, 7))]

\* ------------------------------------------------------ the device side
\* Register contents the sensor can hold.  The byte patterns below run x
\* over all bytes and n over all nibbles, so that every 16-bit coefficient
\* meets every low byte, sixteen high bytes on both sides of the sign bit,
\* and the packed 12-bit fields meet all 4096 values.
Nibble == 0 .. 15

\* A byte whose high nibble is n and whose low nibble is 15 - n.
Mixed(n) == 16 * n + (15 - n)

\* Calibration registers 0x88 .. 0xA1 and 0xE1 .. 0xE7.
SampleBlock1(x, n) ==
    [i \in 1 .. CALIB_LEN1 |->
        IF i % 2 = 1 THEN (x + 7 * i) % 256 ELSE (Mixed(n) + 3 * i) % 256]
SampleBlock2(x, n) ==
    << (x + 1) % 256, (Mixed(n) + 5) % 256, (x + 2) % 256,
       x, Mixed(n), 255 - x, (x + 128) % 256 >>

SampleDevices ==
    {[blk1 |-> SampleBlock1(x, n), blk2 |-> SampleBlock2(x, n)] :
        x \in Byte, n \in Nibble}

\* Measurement registers 0xF7 .. 0xFE.
SampleBurst(x, n) ==
    << x, (3 * x + n) % 256, Mixed(n),
       255 - x, (5 * x + 7 * n) % 256, Mixed(15 - n),
       (x + 16 * n) % 256, (255 - x + n) % 256 >>

\* The register image of a device that holds the coefficients c: words are
\* little-endian in two's complement, 0xA0 is reserved, dig_H4 and dig_H5
\* are 12-bit values that share the register 0xE5.
Lo(x) == (x % 65536) % 256
Hi(x) == (x % 65536) \div 256

DeviceOf(c) ==
    [blk1 |-> << Lo(c.dig_T1), Hi(c.dig_T1), Lo(c.dig_T2), Hi(c.dig_T2),
                 Lo(c.dig_T3), Hi(c.dig_T3), Lo(c.dig_P1), Hi(c.dig_P1),
                 Lo(c.dig_P2), Hi(c.dig_P2), Lo(c.dig_P3), Hi(c.dig_P3),
                 Lo(c.dig_P4), Hi(c.dig_P4), Lo(c.dig_P5), Hi(c.dig_P5),
                 Lo(c.dig_P6), Hi(c.dig_P6), Lo(c.dig_P7), Hi(c.dig_P7),
                 Lo(c.dig_P8), Hi(c.dig_P8), Lo(c.dig_P9), Hi(c.dig_P9),
                 0, c.dig_H1 >>,
     blk2 |-> << Lo(c.dig_H2), Hi(c.dig_H2), c.dig_H3,
                 (c.dig_H4 % 4096) \div 16,
                 (c.dig_H4 % 16) + 16 * (c.dig_H5 % 16),
                 (c.dig_H5 % 4096) \div 16,
                 c.dig_H6 % 256 >>]

\* The burst in which the device reports the three raw values
\* (P_msb, P_lsb, P_xlsb, T_msb, T_lsb, T_xlsb, H_msb, H_lsb).
BurstOf(aP, aT, aH) ==
    << aP \div 4096, (aP \div 16) % 256, (aP % 16) * 16,
       aT \div 4096, (aT \div 16) % 256, (aT % 16) * 16,
       aH \div 256, aH % 256 >>

\* Coefficients with which the three compensation formulas are exact in
\* integers on the samples below.  dig_T1 = 27504, dig_T2 = 16384 and
\* dig_T3 = 0 make adc_T = 440064 + 512 * t read as t tenths of a degree
\* with t_fine = 512 * t.
GridCalib ==
    [dig_T1 |-> 27504, dig_T2 |-> 16384, dig_T3 |-> 0,
     dig_P1 |-> 6250, dig_P2 |-> 0, dig_P3 |-> 0, dig_P4 |-> 100,
     dig_P5 |-> 0, dig_P6 |-> 0, dig_P7 |-> 32, dig_P8 |-> 0, dig_P9 |-> 0,
     dig_H1 |-> 75, dig_H2 |-> 16384, dig_H3 |-> 0, dig_H4 |-> 300,
     dig_H5 |-> 32, dig_H6 |-> 0]

GridDevice == DeviceOf(GridCalib)

\* The raw humidity that GridCalib turns into v percent before the
\* correction by dig_H1, at t tenths of a degree.
GridAdcH(t, v) == 64 * GridCalib.dig_H4 + (t - 150) + 4 * v

\* The burst of a measurement at t tenths of a degree on GridDevice.
GridBurst(t) == BurstOf(300000 + t, 440064 + 512 * t, GridAdcH(t, 50))

\* The temperatures the sensor is at in the polling loop: one in each band
\* of the alert policy and one in range.
GridTemps ==
    {ALERT_LOW_C, WARN_LOW_C, WARN_LOW_C + 1, WARN_HIGH_C, ALERT_HIGH_C}

\* --------------------------------------------------------- compensation
\* BME280_compensate_T_double in exact arithmetic.  With
\* m = adc_T - 16 * dig_T1, var1 = m * dig_T2 / 16384 and
\* var2 = (m / 131072)^2 * dig_T3.  The product is taken in two parts to stay
\* within 32 bits; var2 is 0 for the devices modelled (dig_T3 = 0).
Var1(c, adc_T) ==
    LET m == adc_T - 16 * c.dig_T1
    IN (m \div 16384) * c.dig_T2 + ((m % 16384) * c.dig_T2) \div 16384

Var2(c, adc_T) ==
    LET m == adc_T - 16 * c.dig_T1
    IN IF c.dig_T3 = 0 THEN 0
       ELSE (((m \div 1024) * (m \div 1024)) \div 16384) * c.dig_T3

\* t_fine = (BME280_S32_t)(var1 + var2)
TFine(c, adc_T) == Var1(c, adc_T) + Var2(c, adc_T)

\* T = (var1 + var2) / 5120.0, in tenths of a degree.
BME280_compensate_T_double(c, adc_T) == (Var1(c, adc_T) + Var2(c, adc_T)) \div 512

\* ------------------------------------------- pressure and humidity
\* The double arithmetic of the two formulas, carried out exactly: every
\* quotient below is taken only where it is an integer (CHOOSE has no value
\* otherwise), so a sample on which a formula would round is refused
\* rather than mis-computed.  Scaling by a power of two commutes with the
\* operations of the source, which is used to keep the intermediate
\* values within 32 bits.  An operand that is used more than once is bound
\* to its value first (x \in {a}), as a C expression is evaluated once.
RECURSIVE Gcd(_, _)
Gcd(a, b) ==
    CHOOSE g \in {IF y = 0 THEN x ELSE Gcd(y, x % y) : x \in {a}, y \in {b}} : TRUE

\* a / b for b > 0.
ExactDiv(a, b) == CHOOSE q \in {a \div b} : q * b = a

\* a * b / c for c # 0, reduced before the product is taken.
Frac(a, b, c) ==
    CHOOSE q \in
        { LET n == IF z < 0 THEN -x ELSE x
              m == IF z < 0 THEN -z ELSE z
              g1 == Gcd(m, IF n < 0 THEN -n ELSE n)
              n1 == ExactDiv(n, g1)
              m1 == ExactDiv(m, g1)
              g2 == Gcd(m1, IF y < 0 THEN -y ELSE y)
          IN ExactDiv(n1 * ExactDiv(y, g2), ExactDiv(m1, g2)) :
          x \in {a}, y \in {b}, z \in {c} } : TRUE

\* What a double holds after a division by zero (an infinity or a NaN).
NotFinite == -2147483647

\* BME280_compensate_P_double, var1 and var2 as they stand at the test
\* var1 == 0.0.
PVar1(c, tf) ==
    LET w == ExactDiv(tf, 2) - 64000
        var1 == Frac(Frac(c.dig_P3, w, 524288), w, 524288)
                + Frac(c.dig_P2, w, 524288)
    IN Frac(32768 + var1, c.dig_P1, 32768)

PVar2(c, tf) ==
    LET w == ExactDiv(tf, 2) - 64000
        var2 == c.dig_P6 * Frac(w, w, 32768) + w * c.dig_P5 * 2
    IN ExactDiv(var2, 4) + c.dig_P4 * 65536

\* The statements after the test, in sixteenths of a pascal:
\* p = 1048576.0 - adc_P; p = (p - var2 / 4096.0) * 6250.0 / var1; ...
\* p = p + (var1 + var2 + dig_P7) / 16.0.
PAfterTest(c, adc_P, tf) ==
    CHOOSE r \in
        { IF var1 = 0 THEN NotFinite
          ELSE CHOOSE s \in
                 { 16 * p + Frac(Frac(c.dig_P9, p, 65536), p, 32768)
                          + Frac(p, c.dig_P8, 32768) + c.dig_P7 :
                   p \in {Frac(1048576 - adc_P - ExactDiv(PVar2(c, tf), 4096),
                               6250, var1)} } : TRUE :
          var1 \in {PVar1(c, tf)} } : TRUE

\* Faulty variant: the test looks at dig_P1 only.
BME280_compensate_P_double_P1Only(c, adc_P, tf) ==
    IF c.dig_P1 = 0 THEN 0 ELSE PAfterTest(c, adc_P, tf)

\* if (var1 == 0.0) return 0; otherwise the statements after the test.
BME280_compensate_P_double(c, adc_P, tf) ==
    IF PVar1(c, tf) = 0 THEN 0 ELSE PAfterTest(c, adc_P, tf)

\* 100 percent in the unit of H_RH.
HUnit == 524288
HFull == 100 * HUnit

\* bme280_compensate_H_double before the two tests, in units of 2^-19
\* percent: var_H = t_fine - 76800; the product of the two factors;
\* var_H * (1 - dig_H1 * var_H / 524288).
HUnclamped(c, adc_H, tf) ==
    LET u == tf - 76800
        a == adc_H - (c.dig_H4 * 64 + Frac(c.dig_H5, u, 16384))
        inner == 67108864 + c.dig_H3 * u
        mid == Frac(Frac(c.dig_H6, u, 67108864), inner, 67108864)
    IN CHOOSE r \in
         { v * (HUnit - c.dig_H1 * v) :
           v \in {Frac(a, c.dig_H2 * (1 + mid), 65536)} } : TRUE

\* Faulty variant: the test var_H < 0.0 is missing.
bme280_compensate_H_double_NoFloor(c, adc_H, tf) ==
    IF HUnclamped(c, adc_H, tf) > HFull THEN HFull
    ELSE HUnclamped(c, adc_H, tf)

\* if (var_H > 100.0) var_H = 100.0; else if (var_H < 0.0) var_H = 0.0;
bme280_compensate_H_double(c, adc_H, tf) ==
    IF HUnclamped(c, adc_H, tf) > HFull THEN HFull
    ELSE IF HUnclamped(c, adc_H, tf) < 0 THEN 0
    ELSE HUnclamped(c, adc_H, tf)

\* No iteration has been published.
NoRun == [raw |-> <<-1, -1, -1>>, out |-> <<NoArg, 0, 0>>, t_fine |-> 0]

\* A reading of pressure or humidity that has not been computed.
NoReading == [adc |-> 0, t_fine |-> 0]

\* web_set_readings has not been called.
NoWeb == [T |-> NoArg, H |-> NoReading]

\* The transactions of a bring-up in which nothing fails and the first
\* status poll finds the device ready.
BringUpBus ==
    << i2c_read_bytes(BME280_REG_ID, 1),
       i2c_write_u8(BME280_REG_RESET, BME280_RESET_CMD),
       i2c_read_bytes(BME280_REG_STATUS, 1),
       i2c_read_bytes(CALIB_BLOCK1, CALIB_LEN1),
       i2c_read_bytes(CALIB_BLOCK2, CALIB_LEN2),
       i2c_write_u8(CTRL_HUM, CTRL_VAL1),
       i2c_write_u8(CTRL_MEAS, CTRL_VAL2),
       i2c_write_u8(CTRL_CONF, CTRL_VAL3) >>

\* No i2c_read_bytes and no fetch_outside_current is in progress; network
\* and clock are as they were when app_main set its two flags.
InitI2c ==
    /\ rd_pc = "idle"
    /\ rd_arg = [device_addr |-> 0, register_addr |-> 0, len |-> 0]
    /\ cmd = <<>>
    /\ begun = <<>>
    /\ rd_ret = ""

InitFetch ==
    /\ f_pc = "idle"
    /\ content_len = 0
    /\ cap = 0
    /\ total = 0
    /\ reads = <<>>

InitAux ==
    /\ InitI2c
    /\ InitFetch
    /\ closer = [tid \in TimerIds |-> 0]
    /\ net_up = s_net_ready
    /\ time_ok = s_time_ready
    /\ wait_i = 0

\* app_main is in its polling loop after a bring-up without failure.
InitPolling ==
    /\ app_pc = "loop"
    /\ id = BME280_CHIP_ID
    /\ status = 0
    /\ init_ret = ESP_OK
    /\ bus = BringUpBus
    /\ polls = 1
    /\ settled = TRUE
    /\ dev = GridDevice
    /\ calib = DecodeBlock2(DecodeBlock1(ZeroCalib, dev.blk1), dev.blk2)
    /\ t_fine = 0
    /\ d = <<>>
    /\ raw_T = 0
    /\ raw_P = 0
    /\ raw_H = 0
    /\ main_T_C = NoArg
    /\ P_in = NoReading
    /\ H_in = NoReading
    /\ P_Pa = 0
    /\ H_RH = 0
    /\ prev = NoRun
    /\ web = NoWeb
    /\ sms = ""
    /\ steps = <<>>
    /\ cycle_bus = <<>>
    /\ raw_ret = ""
    /\ s_net_ready = TRUE
    /\ s_time_ready = TRUE
    /\ InitAux

\* app_main is about to call bme280_init.
InitBringUp ==
    /\ app_pc = "init_read_id"
    /\ id = 0
    /\ status = 0
    /\ init_ret = ""
    /\ bus = <<>>
    /\ polls = 0
    /\ settled = FALSE
    /\ dev = GridDevice
    /\ calib = ZeroCalib
    /\ t_fine = 0
    /\ d = <<>>
    /\ raw_T = 0
    /\ raw_P = 0
    /\ raw_H = 0
    /\ main_T_C = NoArg
    /\ P_in = NoReading
    /\ H_in = NoReading
    /\ P_Pa = 0
    /\ H_RH = 0
    /\ prev = NoRun
    /\ web = NoWeb
    /\ sms = ""
    /\ steps = <<>>
    /\ cycle_bus = <<>>
    /\ raw_ret = ""
    /\ s_net_ready \in BOOLEAN
    /\ s_time_ready \in BOOLEAN
    /\ InitAux

\* bme280_init, step 1: ESP_ERROR_CHECK(i2c_read_bytes(.., REG_ID, &id, 1)).
ReadChipId ==
    /\ app_pc = "init_read_id"
    /\ bus' = Append(bus, i2c_read_bytes(BME280_REG_ID, 1))
    /\ \E r \in I2cResults, v \in Byte :
          IF r = ESP_OK
          THEN id' = v /\ app_pc' = "init_check_id"
          ELSE id' = id /\ app_pc' = "abort"
    /\ UNCHANGED <<status, init_ret, polls, settled>>
    /\ UNCHANGED <<alertVars, loopVars, auxVars>>

\* Faulty variant: the chip id is printed but not checked.
CheckChipId_Ignored ==
    /\ app_pc = "init_check_id"
    /\ app_pc' = "init_reset"
    /\ UNCHANGED <<id, status, init_ret, bus, polls, settled>>
    /\ UNCHANGED <<alertVars, loopVars, auxVars>>

\* if (id != BME280_CHIP_ID) return ESP_FAIL;
CheckChipId ==
    /\ app_pc = "init_check_id"
    /\ IF id # BME280_CHIP_ID
       THEN init_ret' = ESP_FAIL /\ app_pc' = "init_done"
       ELSE init_ret' = init_ret /\ app_pc' = "init_reset"
    /\ UNCHANGED <<id, status, bus, polls, settled>>
    /\ UNCHANGED <<alertVars, loopVars, auxVars>>

\* Faulty variant: the first status poll follows the reset write at once.
SoftReset_NoSettle ==
    /\ app_pc = "init_reset"
    /\ bus' = Append(bus, i2c_write_u8(BME280_REG_RESET, BME280_RESET_CMD))
    /\ \E r \in I2cResults :
          app_pc' = IF r = ESP_OK THEN "init_poll" ELSE "abort"
    /\ UNCHANGED <<id, status, init_ret, polls, settled>>
    /\ UNCHANGED <<alertVars, loopVars, auxVars>>

\* step 2: ESP_ERROR_CHECK(i2c_write_u8(.., REG_RESET, RESET_CMD)).
SoftReset ==
    /\ app_pc = "init_reset"
    /\ bus' = Append(bus, i2c_write_u8(BME280_REG_RESET, BME280_RESET_CMD))
    /\ \E r \in I2cResults :
          app_pc' = IF r = ESP_OK THEN "init_settle" ELSE "abort"
    /\ UNCHANGED <<id, status, init_ret, polls, settled>>
    /\ UNCHANGED <<alertVars, loopVars, auxVars>>

\* vTaskDelay after the reset write.
Settle ==
    /\ app_pc = "init_settle"
    /\ app_pc' = "init_poll"
    /\ settled' = TRUE
    /\ UNCHANGED <<id, status, init_ret, bus, polls>>
    /\ UNCHANGED <<alertVars, loopVars, auxVars>>

\* Faulty variant: the poll gives up after MaxPolls reads and reports success.
PollStatus_Capped ==
    /\ app_pc = "init_poll"
    /\ bus' = IF polls < MaxPolls
              THEN Append(bus, i2c_read_bytes(BME280_REG_STATUS, 1)) ELSE bus
    /\ polls' = IF polls < MaxPolls THEN polls + 1 ELSE polls
    /\ \E r \in I2cResults, v \in Byte :
          IF r # ESP_OK
          THEN status' = 0 /\ app_pc' = "abort" /\ init_ret' = init_ret
          ELSE /\ status' = v
               /\ IF v % 2 = 0 \/ polls' = MaxPolls
                  THEN init_ret' = ESP_OK /\ app_pc' = "init_done"
                  ELSE init_ret' = init_ret /\ app_pc' = "init_wait"
    /\ UNCHANGED <<id, settled>>
    /\ UNCHANGED <<alertVars, loopVars, auxVars>>

\* step 3, one turn of while (1): read the status register; leave the loop
\* and return ESP_OK when bit 0 is clear, otherwise delay and poll again.
\* The loop has no exit but these two; the model stops counting polls, and
\* logging their reads, at MaxPolls.
PollStatus ==
    /\ app_pc = "init_poll"
    /\ bus' = IF polls < MaxPolls
              THEN Append(bus, i2c_read_bytes(BME280_REG_STATUS, 1)) ELSE bus
    /\ polls' = IF polls < MaxPolls THEN polls + 1 ELSE polls
    /\ \E r \in I2cResults, v \in Byte :
          IF r # ESP_OK
          THEN status' = 0 /\ app_pc' = "abort" /\ init_ret' = init_ret
          ELSE /\ status' = v
               /\ IF v % 2 = 0
                  THEN init_ret' = ESP_OK /\ app_pc' = "init_done"
                  ELSE init_ret' = init_ret /\ app_pc' = "init_wait"
    /\ UNCHANGED <<id, settled>>
    /\ UNCHANGED <<alertVars, loopVars, auxVars>>

\* vTaskDelay between two polls.
PollDelay ==
    /\ app_pc = "init_wait"
    /\ app_pc' = "init_poll"
    /\ UNCHANGED <<id, status, init_ret, bus, polls, settled>>
    /\ UNCHANGED <<alertVars, loopVars, auxVars>>

\* Faulty variant: the result of bme280_init is not looked at.
InitChecked_Ignored ==
    /\ app_pc = "init_done"
    /\ app_pc' = "calib_1"
    /\ status' = 0
    /\ UNCHANGED <<id, init_ret, bus, polls, settled>>
    /\ UNCHANGED <<alertVars, loopVars, auxVars>>

\* app_main: ESP_ERROR_CHECK(bme280_init()).  bme280_init has returned and
\* its local status is gone.
InitChecked ==
    /\ app_pc = "init_done"
    /\ app_pc' = IF init_ret = ESP_OK THEN "calib_1" ELSE "abort"
    /\ status' = 0
    /\ UNCHANGED <<id, init_ret, bus, polls, settled>>
    /\ UNCHANGED <<alertVars, loopVars, auxVars>>

\* bme280_read_calibration: two burst reads, each under ESP_ERROR_CHECK and
\* each followed by the assignments to calib from the bytes it read.
bme280_read_calibration ==
    /\ app_pc \in {"calib_1", "calib_2"}
    /\ bus' = Append(bus, IF app_pc = "calib_1"
                          THEN i2c_read_bytes(CALIB_BLOCK1, CALIB_LEN1)
                          ELSE i2c_read_bytes(CALIB_BLOCK2, CALIB_LEN2))
    /\ \E r \in I2cResults :
          IF r # ESP_OK
          THEN app_pc' = "abort" /\ calib' = calib
          ELSE IF app_pc = "calib_1"
               THEN app_pc' = "calib_2" /\ calib' = DecodeBlock1(calib, dev.blk1)
               ELSE app_pc' = "config_1" /\ calib' = DecodeBlock2(calib, dev.blk2)
    /\ UNCHANGED <<id, status, init_ret, polls, settled>>
    /\ UNCHANGED <<dev, t_fine, d, raw_T, raw_P, raw_H, main_T_C, P_in, P_Pa, H_in, H_RH,
                   web, prev, sms, steps, cycle_bus, raw_ret, s_net_ready,
                   s_time_ready, auxVars>>
    /\ UNCHANGED alertVars

\* bme280_config_normal: three register writes, each under ESP_ERROR_CHECK.
bme280_config_normal ==
    /\ app_pc \in {"config_1", "config_2", "config_3"}
    /\ bus' = Append(bus, CASE app_pc = "config_1" -> i2c_write_u8(CTRL_HUM, CTRL_VAL1)
                            [] app_pc = "config_2" -> i2c_write_u8(CTRL_MEAS, CTRL_VAL2)
                            [] app_pc = "config_3" -> i2c_write_u8(CTRL_CONF, CTRL_VAL3))
    /\ \E r \in I2cResults :
          app_pc' = IF r # ESP_OK THEN "abort"
                    ELSE CASE app_pc = "config_1" -> "config_2"
                           [] app_pc = "config_2" -> "config_3"
                           [] app_pc = "config_3" -> "loop"
    /\ UNCHANGED <<id, status, init_ret, polls, settled>>
    /\ UNCHANGED <<alertVars, loopVars, auxVars>>

\* ========================================================= polling loop
\* Part 3 (specification SpecApp): app_main from bme280_init on, with the
\* while (1) loop of app_main.c:148-169 one statement per step, the calls
\* of sms_eval_alert it makes (part 1) and the esp_timer task.

\* bme280_read_raw: the block it reads.
RAW_BLOCK == 247
RAW_LEN == 8

\* The statements of one iteration, in the order of the source.
Pipeline == <<"read_raw", "T", "P", "H", "publish", "delay", "eval">>

\* bme280_read_raw called at the top of an iteration: one burst read under
\* ESP_ERROR_CHECK (in bme280_read_raw and again in app_main), then the
\* three values are unpacked.  A new iteration starts here.
bme280_read_raw(burst) ==
    /\ app_pc = "loop"
    /\ steps' = <<"read_raw">>
    /\ cycle_bus' = <<i2c_read_bytes(RAW_BLOCK, RAW_LEN)>>
    /\ \E r \in I2cResults :
          /\ raw_ret' = r
          /\ IF r = ESP_OK
             THEN /\ d' = burst
                  /\ raw_P' = AdcOf(burst).adc_P
                  /\ raw_T' = AdcOf(burst).adc_T
                  /\ raw_H' = AdcOf(burst).adc_H
                  /\ app_pc' = "comp_T"
             ELSE /\ app_pc' = "abort"
                  /\ UNCHANGED <<d, raw_P, raw_T, raw_H>>
    /\ UNCHANGED <<id, status, init_ret, bus, polls, settled>>
    /\ UNCHANGED <<dev, calib, t_fine, main_T_C, P_in, P_Pa, H_in, H_RH, web, prev, sms,
                   s_net_ready, s_time_ready, auxVars>>
    /\ UNCHANGED alertVars

\* Faulty variant: the temperature is computed but t_fine is left as it was.
CompT_Stale ==
    /\ app_pc = "comp_T"
    /\ main_T_C' = BME280_compensate_T_double(calib, raw_T)
    /\ steps' = Append(steps, "T")
    /\ app_pc' = "comp_P"
    /\ UNCHANGED <<id, status, init_ret, bus, polls, settled>>
    /\ UNCHANGED <<dev, calib, t_fine, d, raw_T, raw_P, raw_H, P_in, P_Pa, H_in, H_RH, web, prev,
                   sms, cycle_bus, raw_ret, s_net_ready, s_time_ready, auxVars>>
    /\ UNCHANGED alertVars

\* double T_C = BME280_compensate_T_double(raw_T): sets the global t_fine.
CompT ==
    /\ app_pc = "comp_T"
    /\ t_fine' = TFine(calib, raw_T)
    /\ main_T_C' = BME280_compensate_T_double(calib, raw_T)
    /\ steps' = Append(steps, "T")
    /\ app_pc' = "comp_P"
    /\ UNCHANGED <<id, status, init_ret, bus, polls, settled>>
    /\ UNCHANGED <<dev, calib, d, raw_T, raw_P, raw_H, P_in, P_Pa, H_in, H_RH, web, prev, sms,
                   cycle_bus, raw_ret, s_net_ready, s_time_ready, auxVars>>
    /\ UNCHANGED alertVars

\* Faulty variant: the pressure formula moves t_fine.
CompP_Drift ==
    /\ app_pc = "comp_P"
    /\ P_in' = [adc |-> raw_P, t_fine |-> t_fine]
    /\ P_Pa' = BME280_compensate_P_double(calib, raw_P, t_fine)
    /\ t_fine' = t_fine + 512
    /\ steps' = Append(steps, "P")
    /\ app_pc' = "comp_H"
    /\ UNCHANGED <<id, status, init_ret, bus, polls, settled>>
    /\ UNCHANGED <<dev, calib, d, raw_T, raw_P, raw_H, main_T_C, H_in, H_RH,
                   web, prev, sms, cycle_bus, raw_ret, s_net_ready, s_time_ready, auxVars>>
    /\ UNCHANGED alertVars

\* double P_Pa = BME280_compensate_P_double(raw_P): reads raw_P and t_fine.
CompP ==
    /\ app_pc = "comp_P"
    /\ P_in' = [adc |-> raw_P, t_fine |-> t_fine]
    /\ P_Pa' = BME280_compensate_P_double(calib, raw_P, t_fine)
    /\ steps' = Append(steps, "P")
    /\ app_pc' = "comp_H"
    /\ UNCHANGED <<id, status, init_ret, bus, polls, settled>>
    /\ UNCHANGED <<dev, calib, t_fine, d, raw_T, raw_P, raw_H, main_T_C, H_in, H_RH,
                   web, prev, sms, cycle_bus, raw_ret, s_net_ready, s_time_ready, auxVars>>
    /\ UNCHANGED alertVars

\* double H_RH = bme280_compensate_H_double(raw_H): reads raw_H and t_fine.
CompH ==
    /\ app_pc = "comp_H"
    /\ H_in' = [adc |-> raw_H, t_fine |-> t_fine]
    /\ H_RH' = bme280_compensate_H_double(calib, raw_H, t_fine)
    /\ steps' = Append(steps, "H")
    /\ app_pc' = "publish"
    /\ UNCHANGED <<id, status, init_ret, bus, polls, settled>>
    /\ UNCHANGED <<dev, calib, t_fine, d, raw_T, raw_P, raw_H, main_T_C, P_in, P_Pa,
                   web, prev, sms, cycle_bus, raw_ret, s_net_ready, s_time_ready, auxVars>>
    /\ UNCHANGED alertVars

\* printf and web_set_readings((float)T_C, .., (float)H_RH, ..).
web_set_readings ==
    /\ app_pc = "publish"
    /\ web' = [T |-> main_T_C, H |-> H_in]
    /\ prev' = [raw |-> <<raw_T, raw_P, raw_H>>,
                out |-> <<main_T_C, P_Pa, H_RH>>, t_fine |-> t_fine]
    /\ steps' = Append(steps, "publish")
    /\ app_pc' = "delay"
    /\ UNCHANGED <<id, status, init_ret, bus, polls, settled>>
    /\ UNCHANGED <<dev, calib, t_fine, d, raw_T, raw_P, raw_H, main_T_C, P_in, P_Pa,
                   H_in, H_RH, sms, cycle_bus, raw_ret, s_net_ready, s_time_ready, auxVars>>
    /\ UNCHANGED alertVars

\* vTaskDelayUntil(&last_wake, period_ticks).
vTaskDelayUntil ==
    /\ app_pc = "delay"
    /\ steps' = Append(steps, "delay")
    /\ app_pc' = "gate"
    /\ UNCHANGED <<id, status, init_ret, bus, polls, settled>>
    /\ UNCHANGED <<dev, calib, t_fine, d, raw_T, raw_P, raw_H, main_T_C, P_in, P_Pa,
                   H_in, H_RH, web, prev, sms, cycle_bus, raw_ret, s_net_ready,
                   s_time_ready, auxVars>>
    /\ UNCHANGED alertVars

\* Faulty variant: the loop asks have_ip() and time_is_set() in every
\* iteration.
AlertGate_Live ==
    /\ app_pc = "gate"
    /\ pc = "idle"
    /\ IF time_ok /\ net_up
       THEN /\ CallFrame(main_T_C)
            /\ steps' = Append(steps, "eval")
            /\ app_pc' = "in_eval"
       ELSE /\ app_pc' = "loop"
            /\ UNCHANGED steps
            /\ UNCHANGED alertVars
    /\ UNCHANGED <<id, status, init_ret, bus, polls, settled>>
    /\ UNCHANGED <<dev, calib, t_fine, d, raw_T, raw_P, raw_H, main_T_C, P_in, P_Pa,
                   H_in, H_RH, web, prev, sms, cycle_bus, raw_ret, s_net_ready,
                   s_time_ready, auxVars>>

\* if (s_time_ready && s_net_ready) sms = sms_eval_alert(T_C); otherwise the
\* iteration is over.
AlertGate ==
    /\ app_pc = "gate"
    /\ pc = "idle"
    /\ IF s_time_ready /\ s_net_ready
       THEN /\ CallFrame(main_T_C)
            /\ steps' = Append(steps, "eval")
            /\ app_pc' = "in_eval"
       ELSE /\ app_pc' = "loop"
            /\ UNCHANGED steps
            /\ UNCHANGED alertVars
    /\ UNCHANGED <<id, status, init_ret, bus, polls, settled>>
    /\ UNCHANGED <<dev, calib, t_fine, d, raw_T, raw_P, raw_H, main_T_C, P_in, P_Pa,
                   H_in, H_RH, web, prev, sms, cycle_bus, raw_ret, s_net_ready,
                   s_time_ready, auxVars>>

\* Faulty variant: an error of sms_eval_alert is treated like the errors of
\* the driver and ends the program.
EvalReturned_Checked ==
    /\ app_pc = "in_eval"
    /\ pc = "idle"
    /\ sms' = ret
    /\ steps' = steps
    /\ app_pc' = IF ret # ESP_OK THEN "abort" ELSE "loop"
    /\ UNCHANGED <<id, status, init_ret, bus, polls, settled>>
    /\ UNCHANGED <<dev, calib, t_fine, d, raw_T, raw_P, raw_H, main_T_C, P_in, P_Pa,
                   H_in, H_RH, web, prev, cycle_bus, raw_ret, s_net_ready, s_time_ready, auxVars>>
    /\ UNCHANGED alertVars

\* Faulty variant: after the call the alert test is made once more.
EvalReturned_Again ==
    /\ app_pc = "in_eval"
    /\ pc = "idle"
    /\ sms' = ret
    /\ steps' = IF ret # ESP_OK THEN Append(steps, "log") ELSE steps
    /\ app_pc' = IF Len(steps) <= Len(Pipeline) THEN "gate" ELSE "loop"
    /\ UNCHANGED <<id, status, init_ret, bus, polls, settled>>
    /\ UNCHANGED <<dev, calib, t_fine, d, raw_T, raw_P, raw_H, main_T_C, P_in, P_Pa,
                   H_in, H_RH, web, prev, cycle_bus, raw_ret, s_net_ready, s_time_ready, auxVars>>
    /\ UNCHANGED alertVars

\* sms_eval_alert has returned: sms holds its result; if (sms != ESP_OK)
\* ESP_LOGW(..); the iteration is over.
EvalReturned ==
    /\ app_pc = "in_eval"
    /\ pc = "idle"
    /\ sms' = ret
    /\ steps' = IF ret # ESP_OK THEN Append(steps, "log") ELSE steps
    /\ app_pc' = "loop"
    /\ UNCHANGED <<id, status, init_ret, bus, polls, settled>>
    /\ UNCHANGED <<dev, calib, t_fine, d, raw_T, raw_P, raw_H, main_T_C, P_in, P_Pa,
                   H_in, H_RH, web, prev, cycle_bus, raw_ret, s_net_ready, s_time_ready, auxVars>>
    /\ UNCHANGED alertVars

bme280_init == ReadChipId \/ CheckChipId \/ SoftReset \/ Settle \/ PollStatus \/ PollDelay

NextInit ==
    \/ bme280_init
    \/ InitChecked
    \/ bme280_read_calibration
    \/ bme280_config_normal

InitBoot == InitAlert /\ InitBringUp

SpecInit == InitBoot /\ [][NextInit]_vars

\* A status poll that finds bit 0 (im_update) clear.
PollReady == PollStatus /\ app_pc' = "init_done"

\* The task that runs app_main keeps running, and the device finishes its
\* NVM copy at some time: a poll that may find the bit clear again and again
\* does find it clear.
FairInit ==
    /\ SpecInit
    /\ WF_vars(NextInit)
    /\ SF_vars(PollReady)

\* ========================================================= alert evaluator
Init == InitAlert /\ InitPolling

Next ==
    \/ \E t \in Temps : Call(t)
    \/ sms_eval_alert
    \/ TimePasses
    \/ \E tid \in TimerIds : Expire(tid)
    \/ callback_timer_A
    \/ callback_timer_B

Spec == Init /\ [][Next]_vars

\* The polling task runs on, time advances however often sms_eval_alert is
\* called, and the esp_timer task dispatches what is due.
FairSpec ==
    /\ Spec
    /\ WF_vars(sms_eval_alert)
    /\ SF_vars(TimePasses)
    /\ \A tid \in TimerIds : WF_vars(Expire(tid))
    /\ WF_vars(callback_timer_A)
    /\ WF_vars(callback_timer_B)

\* ------------------------------------------------------- the whole program
NextApp ==
    \/ bme280_init
    \/ InitChecked
    \/ bme280_read_calibration
    \/ bme280_config_normal
    \/ \E t \in GridTemps : bme280_read_raw(GridBurst(t))
    \/ CompT
    \/ CompP
    \/ CompH
    \/ web_set_readings
    \/ vTaskDelayUntil
    \/ AlertGate
    \/ EvalReturned
    \/ sms_eval_alert
    \/ TimePasses
    \/ \E tid \in TimerIds : Expire(tid)
    \/ callback_timer_A
    \/ callback_timer_B

SpecApp == InitBoot /\ [][NextApp]_vars

\* The polling loop alone, from its first iteration on, with the sensor at
\* one temperature of the cold warning band and one of the hot alert band.
LoopTemps == {WARN_LOW_C, ALERT_HIGH_C}

NextLoop ==
    \/ \E t \in LoopTemps : bme280_read_raw(GridBurst(t))
    \/ CompT
    \/ CompP
    \/ CompH
    \/ web_set_readings
    \/ vTaskDelayUntil
    \/ AlertGate
    \/ EvalReturned
    \/ sms_eval_alert
    \/ TimePasses
    \/ \E tid \in TimerIds : Expire(tid)
    \/ callback_timer_A
    \/ callback_timer_B

SpecLoop == Init /\ [][NextLoop]_vars

\* The polling task of app_main takes its next step, and so does a call of
\* sms_eval_alert in progress.
FairLoop ==
    /\ SpecLoop
    /\ WF_vars(\E t \in LoopTemps : bme280_read_raw(GridBurst(t)))
    /\ WF_vars(CompT)
    /\ WF_vars(CompP)
    /\ WF_vars(CompH)
    /\ WF_vars(web_set_readings)
    /\ WF_vars(vTaskDelayUntil)
    /\ WF_vars(AlertGate)
    /\ WF_vars(EvalReturned)
    /\ WF_vars(sms_eval_alert)

\* ------------------------------------------------- decoding, on its own
\* bme280_read_calibration on every device of SampleDevices: app_main has
\* come through bme280_init without a failure.
InitCalib ==
    /\ InitAlert
    /\ app_pc = "calib_1"
    /\ id = BME280_CHIP_ID
    /\ status = 0
    /\ init_ret = ESP_OK
    /\ bus = SubSeq(BringUpBus, 1, 3)
    /\ polls = 1
    /\ settled = TRUE
    /\ dev \in SampleDevices
    /\ calib = ZeroCalib
    /\ t_fine = 0
    /\ d = <<>>
    /\ raw_T = 0
    /\ raw_P = 0
    /\ raw_H = 0
    /\ main_T_C = NoArg
    /\ P_in = NoReading
    /\ H_in = NoReading
    /\ P_Pa = 0
    /\ H_RH = 0
    /\ prev = NoRun
    /\ web = NoWeb
    /\ sms = ""
    /\ steps = <<>>
    /\ cycle_bus = <<>>
    /\ raw_ret = ""
    /\ s_net_ready = TRUE
    /\ s_time_ready = TRUE
    /\ InitAux

NextCalib == bme280_read_calibration

SpecCalib == InitCalib /\ [][NextCalib]_vars

\* bme280_read_raw on every burst of SampleBurst, at the top of the loop.
NextRaw == \E x \in Byte, n \in Nibble : bme280_read_raw(SampleBurst(x, n))

SpecRaw == Init /\ [][NextRaw]_vars

\* ============================================ app_main, startup waits
\* app_main before the sensor bring-up: Wi-Fi, SNTP, the web server and the
\* outside-temperature task are started, then two bounded waits, then the
\* two flags are set from have_ip() and time_is_set().  The I2C driver and
\* the address scan that follow lead to bme280_init.  Network and clock
\* are the environment: DHCP may give or lose the address at any time, the
\* clock becomes valid once.
IP_WAIT_POLLS == 100
TIME_WAIT_POLLS == 150

\* What the startup steps leave alone.
bootFrame ==
    <<alertVars, id, status, init_ret, bus, polls, settled, dev, calib, t_fine,
      d, raw_T, raw_P, raw_H, main_T_C, P_in, P_Pa, H_in, H_RH, web, prev, sms,
      steps, cycle_bus, raw_ret, i2cVars, fetchVars, closer>>

\* IP_EVENT_STA_GOT_IP or a disconnect: have_ip() changes.
NetChange ==
    /\ net_up' = ~net_up
    /\ UNCHANGED <<alertVars, appVars, loopVars, i2cVars, fetchVars, closer>>
    /\ UNCHANGED <<time_ok, wait_i>>

\* SNTP sets the clock: time_is_set() becomes true.
ClockSet ==
    /\ ~time_ok
    /\ time_ok' = TRUE
    /\ UNCHANGED <<alertVars, appVars, loopVars, i2cVars, fetchVars, closer>>
    /\ UNCHANGED <<net_up, wait_i>>

\* for (int i = 0; i < 100 && !have_ip(); i++) vTaskDelay(pdMS_TO_TICKS(100));
WaitIp ==
    /\ app_pc = "wait_ip"
    /\ IF wait_i < IP_WAIT_POLLS /\ ~net_up
       THEN wait_i' = wait_i + 1 /\ UNCHANGED app_pc
       ELSE wait_i' = 0 /\ app_pc' = "wait_time"
    /\ UNCHANGED <<net_up, time_ok, s_net_ready, s_time_ready>>
    /\ UNCHANGED bootFrame

\* for (int i = 0; i < 150 && !time_is_set(); i++) vTaskDelay(pdMS_TO_TICKS(150));
WaitTime ==
    /\ app_pc = "wait_time"
    /\ IF wait_i < TIME_WAIT_POLLS /\ ~time_ok
       THEN wait_i' = wait_i + 1 /\ UNCHANGED app_pc
       ELSE wait_i' = 0 /\ app_pc' = "set_net"
    /\ UNCHANGED <<net_up, time_ok, s_net_ready, s_time_ready>>
    /\ UNCHANGED bootFrame

\* s_net_ready = have_ip();
SetNetReady ==
    /\ app_pc = "set_net"
    /\ s_net_ready' = net_up
    /\ app_pc' = "set_time"
    /\ UNCHANGED <<net_up, time_ok, wait_i, s_time_ready>>
    /\ UNCHANGED bootFrame

\* s_time_ready = time_is_set();
SetTimeReady ==
    /\ app_pc = "set_time"
    /\ s_time_ready' = time_ok
    /\ app_pc' = "init_read_id"
    /\ UNCHANGED <<net_up, time_ok, wait_i, s_net_ready>>
    /\ UNCHANGED bootFrame

\* app_main from its first wait on: the flags are 0 (static storage), the
\* network has no address yet, the clock may be valid from an earlier run.
InitReady ==
    /\ InitAlert
    /\ app_pc = "wait_ip"
    /\ id = 0
    /\ status = 0
    /\ init_ret = ""
    /\ bus = <<>>
    /\ polls = 0
    /\ settled = FALSE
    /\ dev = GridDevice
    /\ calib = ZeroCalib
    /\ t_fine = 0
    /\ d = <<>>
    /\ raw_T = 0
    /\ raw_P = 0
    /\ raw_H = 0
    /\ main_T_C = NoArg
    /\ P_in = NoReading
    /\ H_in = NoReading
    /\ P_Pa = 0
    /\ H_RH = 0
    /\ prev = NoRun
    /\ web = NoWeb
    /\ sms = ""
    /\ steps = <<>>
    /\ cycle_bus = <<>>
    /\ raw_ret = ""
    /\ s_net_ready = FALSE
    /\ s_time_ready = FALSE
    /\ InitI2c
    /\ InitFetch
    /\ closer = [tid \in TimerIds |-> 0]
    /\ net_up = FALSE
    /\ time_ok \in BOOLEAN
    /\ wait_i = 0

NextReady ==
    \/ NetChange
    \/ ClockSet
    \/ WaitIp
    \/ WaitTime
    \/ SetNetReady
    \/ SetTimeReady
    \/ bme280_init
    \/ InitChecked
    \/ bme280_read_calibration
    \/ bme280_config_normal
    \/ \E t \in LoopTemps : bme280_read_raw(GridBurst(t))
    \/ CompT
    \/ CompP
    \/ CompH
    \/ web_set_readings
    \/ vTaskDelayUntil
    \/ AlertGate
    \/ EvalReturned
    \/ sms_eval_alert
    \/ TimePasses
    \/ \E tid \in TimerIds : Expire(tid)
    \/ callback_timer_A
    \/ callback_timer_B

SpecReady == InitReady /\ [][NextReady]_vars

\* ==================================================== i2c_read_bytes
\* One call of i2c_read_bytes, statement by statement: the command link is
\* filled, handed to i2c_master_cmd_begin, freed, and the status of the
\* transaction is returned.
BME280_ADDR == 119
I2C_MASTER_WRITE == 0
I2C_MASTER_READ == 1

\* Lengths read besides those of the driver's own calls: 1 .. MaxLen.
MaxLen == 3

\* The registers and lengths i2c_read_bytes is called with.
RdRegisters ==
    {BME280_REG_ID, BME280_REG_STATUS, CALIB_BLOCK1, CALIB_BLOCK2, RAW_BLOCK}
RdLens == (1 .. MaxLen) \cup {CALIB_LEN2, RAW_LEN, CALIB_LEN1}

\* The entries of a command link.  A write carries the byte and asks for
\* the acknowledge to be checked; a read carries the offset into buffer,
\* the number of bytes and the acknowledge the master answers with.
I2cStart == [op |-> "start", val |-> 0, n |-> 0, ack |-> "none"]
I2cStop == [op |-> "stop", val |-> 0, n |-> 0, ack |-> "none"]
I2cWriteByte(data) == [op |-> "write", val |-> data, n |-> 1, ack |-> "check"]
I2cRead(offset, len, ack) == [op |-> "read", val |-> offset, n |-> len, ack |-> ack]

\* The frame of the steps of the call.
rdFrame == <<alertVars, appVars, loopVars, envVars, fetchVars, closer>>

\* i2c_cmd_handle_t cmd = i2c_cmd_link_create(), on entry.
i2c_cmd_link_create(register_addr, len) ==
    /\ rd_pc = "idle"
    /\ rd_arg' = [device_addr |-> BME280_ADDR, register_addr |-> register_addr,
                  len |-> len]
    /\ cmd' = <<>>
    /\ begun' = <<>>
    /\ rd_ret' = ""
    /\ rd_pc' = "start"
    /\ UNCHANGED rdFrame

\* One of the i2c_master_ calls that append entry c to the link.
Queue(from, to, c) ==
    /\ rd_pc = from
    /\ cmd' = Append(cmd, c)
    /\ rd_pc' = to
    /\ UNCHANGED <<rd_arg, begun, rd_ret>>
    /\ UNCHANGED rdFrame

\* i2c_master_start(cmd)
RdStart == Queue("start", "addr_w", I2cStart)

\* i2c_master_write_byte(cmd, (device_addr << 1) | I2C_MASTER_WRITE, true)
RdAddrWrite ==
    Queue("addr_w", "reg",
          I2cWriteByte(BitOr(Shl(rd_arg.device_addr, 1), I2C_MASTER_WRITE)))

\* i2c_master_write_byte(cmd, register_addr, true)
RdRegister == Queue("reg", "restart", I2cWriteByte(rd_arg.register_addr))

\* i2c_master_start(cmd), the second
RdRestart == Queue("restart", "addr_r", I2cStart)

\* i2c_master_write_byte(cmd, (device_addr << 1) | I2C_MASTER_READ, true)
RdAddrRead ==
    Queue("addr_r", "body",
          I2cWriteByte(BitOr(Shl(rd_arg.device_addr, 1), I2C_MASTER_READ)))

\* if (len > 1) i2c_master_read(cmd, buffer, len - 1, I2C_MASTER_ACK)
RdBody ==
    /\ rd_pc = "body"
    /\ cmd' = IF rd_arg.len > 1
              THEN Append(cmd, I2cRead(0, rd_arg.len - 1, "ACK"))
              ELSE cmd
    /\ rd_pc' = "last"
    /\ UNCHANGED <<rd_arg, begun, rd_ret>>
    /\ UNCHANGED rdFrame

\* i2c_master_read_byte(cmd, &buffer[len - 1], I2C_MASTER_NACK)
RdLast == Queue("last", "stop", I2cRead(rd_arg.len - 1, 1, "NACK"))

\* i2c_master_stop(cmd)
RdStop == Queue("stop", "begin", I2cStop)

\* esp_err_t ret = i2c_master_cmd_begin(I2C_PORT, cmd, pdMS_TO_TICKS(100)):
\* the transaction runs and ends with a status.
RdBegin ==
    /\ rd_pc = "begin"
    /\ \E r \in I2cResults : begun' = Append(begun, [link |-> cmd, ret |-> r])
    /\ rd_pc' = "delete"
    /\ UNCHANGED <<rd_arg, cmd, rd_ret>>
    /\ UNCHANGED rdFrame

\* i2c_cmd_link_delete(cmd)
RdDelete ==
    /\ rd_pc = "delete"
    /\ cmd' = <<>>
    /\ rd_pc' = "return"
    /\ UNCHANGED <<rd_arg, begun, rd_ret>>
    /\ UNCHANGED rdFrame

\* Faulty variant: the call reports success whatever the transaction did.
RdReturn_Ok ==
    /\ rd_pc = "return"
    /\ rd_ret' = ESP_OK
    /\ rd_pc' = "idle"
    /\ UNCHANGED <<rd_arg, cmd, begun>>
    /\ UNCHANGED rdFrame

\* return ret
RdReturn ==
    /\ rd_pc = "return"
    /\ rd_ret' = begun[Len(begun)].ret
    /\ rd_pc' = "idle"
    /\ UNCHANGED <<rd_arg, cmd, begun>>
    /\ UNCHANGED rdFrame

NextI2c ==
    \/ \E register_addr \in RdRegisters, len \in RdLens :
          i2c_cmd_link_create(register_addr, len)
    \/ RdStart
    \/ RdAddrWrite
    \/ RdRegister
    \/ RdRestart
    \/ RdAddrRead
    \/ RdBody
    \/ RdLast
    \/ RdStop
    \/ RdBegin
    \/ RdDelete
    \/ RdReturn

SpecI2c == Init /\ [][NextI2c]_vars

\* ============================================== fetch_outside_current
\* The buffer handling of fetch_outside_current, from the response headers
\* to the terminating 0.  The client and the connection are open; what the
\* server announces and how many bytes each read delivers is the
\* environment's choice.
CHUNK == 1024
DEFAULT_CHUNKS == 8
LIMIT_KIB == 64

\* Reads of one response that deliver data (the loop itself has no bound).
MaxReads == 3

\* What esp_http_client_fetch_headers returns: -1 without a Content-Length
\* (chunked transfer), 0, and lengths around the sizes the code tests.
ContentLens ==
    {-1, 0, 1, 10, 511, 512, 1023, 1024, 1025, 3000,
     LIMIT_KIB * 1024 - 1, LIMIT_KIB * 1024}

\* What esp_http_client_read(c, buf + total, CHUNK) returns: an error, the
\* end of the data, or the number of bytes it stored, at most CHUNK.
ReadResults == {-1, 0, 1, 10, 500, CHUNK}

fetchFrame == <<alertVars, appVars, loopVars, i2cVars, envVars, closer>>

\* int content_len = esp_http_client_fetch_headers(c); the choice of cap.
FetchHeaders(len) ==
    /\ f_pc = "idle"
    /\ content_len' = len
    /\ cap' = IF len > 0 /\ len < LIMIT_KIB * 1024
              THEN len + 1
              ELSE CHUNK * DEFAULT_CHUNKS
    /\ total' = 0
    /\ reads' = <<>>
    /\ f_pc' = "malloc"
    /\ UNCHANGED fetchFrame

\* char *buf = malloc(cap); if (!buf) { ...; return out; }  int total = 0;
FetchMalloc ==
    /\ f_pc = "malloc"
    /\ \E ok \in BOOLEAN : f_pc' = IF ok THEN "room" ELSE "idle"
    /\ UNCHANGED <<content_len, cap, total, reads>>
    /\ UNCHANGED fetchFrame

\* if (total + CHUNK + 1 > cap) { new_cap = cap * 2; nb = realloc(buf,
\* new_cap); if (!nb) { ...; return out; } buf = nb; cap = new_cap; }
FetchRoom ==
    /\ f_pc = "room"
    /\ IF total + CHUNK + 1 > cap
       THEN \E ok \in BOOLEAN :
               IF ok THEN cap' = cap * 2 /\ f_pc' = "read"
                     ELSE f_pc' = "idle" /\ UNCHANGED cap
       ELSE f_pc' = "read" /\ UNCHANGED cap
    /\ UNCHANGED <<content_len, total, reads>>
    /\ UNCHANGED fetchFrame

\* int r = esp_http_client_read(c, buf + total, CHUNK);
\* if (r <= 0) break; total += r;
FetchRead(r) ==
    /\ f_pc = "read"
    /\ r > 0 => Len(reads) < MaxReads
    /\ reads' = Append(reads, [total |-> total, cap |-> cap])
    /\ IF r <= 0
       THEN f_pc' = "terminate" /\ UNCHANGED total
       ELSE f_pc' = "room" /\ total' = total + r
    /\ UNCHANGED <<content_len, cap>>
    /\ UNCHANGED fetchFrame

\* buf[total] = '\0'; the parse, free and cleanup that follow.
FetchTerminate ==
    /\ f_pc = "terminate"
    /\ f_pc' = "idle"
    /\ UNCHANGED <<content_len, cap, total, reads>>
    /\ UNCHANGED fetchFrame

NextFetch ==
    \/ \E len \in ContentLens : FetchHeaders(len)
    \/ FetchMalloc
    \/ FetchRoom
    \/ \E r \in ReadResults : FetchRead(r)
    \/ FetchTerminate

SpecFetch == Init /\ [][NextFetch]_vars

\* --------------------------------------------- compensation, on its own
\* The polling loop on devices and samples that exercise the tests of the
\* pressure and humidity formulas.  The network never came up, so the alert
\* evaluator is not called.
\* GridCalib; dig_P1 = 0; coefficients with which var1 of the pressure
\* formula is 0 at t_fine = 1176576 although dig_P1 is not; no humidity
\* correction (dig_H1 = 0).
CompCalibs ==
    { GridCalib,
      [GridCalib EXCEPT !.dig_P1 = 0],
      [GridCalib EXCEPT !.dig_T1 = 0, !.dig_T2 = 20480, !.dig_P2 = -32768],
      [GridCalib EXCEPT !.dig_H1 = 0] }

CompDevices == {DeviceOf(c) : c \in CompCalibs}

\* Values of t_fine the samples lead to: 15, 25 and 30 degrees on the
\* grid, 25 degrees and the zero of var1 on the third device.
CompTFine(c) ==
    IF c.dig_T2 = 16384 THEN {76800, 128000, 153600} ELSE {128000, 1176576}

\* The least raw temperature that c turns into t_fine = tf.
CompAdcT(c, tf) ==
    LET a == 16 * c.dig_T1 + (tf \div c.dig_T2) * 16384
               + ((tf % c.dig_T2) * 16384) \div c.dig_T2
    IN CHOOSE x \in {a, a + 1} : TFine(c, x) = tf

\* Humidity before the correction by dig_H1, in percent: below 0, 0, in
\* range, 100, above 100, and so far above that the correction makes it
\* negative.
CompHum(c) ==
    {-8, 0, 50, 100, 101, 104} \cup (IF c.dig_H1 # 0 THEN {7000} ELSE {})

\* The raw humidity that c turns into v percent before the correction.
CompAdcH(c, tf, v) ==
    c.dig_H4 * 64 + Frac(c.dig_H5, tf - 76800, 16384) + Frac(v, 65536, c.dig_H2)

CompBursts(c) ==
    {BurstOf(aP, CompAdcT(c, tf), CompAdcH(c, tf, v)) :
        aP \in {300000, 1048575}, tf \in CompTFine(c), v \in CompHum(c)}

InitComp ==
    /\ InitAlert
    /\ app_pc = "loop"
    /\ id = BME280_CHIP_ID
    /\ status = 0
    /\ init_ret = ESP_OK
    /\ bus = BringUpBus
    /\ polls = 1
    /\ settled = TRUE
    /\ dev \in CompDevices
    /\ calib = DecodeBlock2(DecodeBlock1(ZeroCalib, dev.blk1), dev.blk2)
    /\ t_fine = 0
    /\ d = <<>>
    /\ raw_T = 0
    /\ raw_P = 0
    /\ raw_H = 0
    /\ main_T_C = NoArg
    /\ P_in = NoReading
    /\ H_in = NoReading
    /\ P_Pa = 0
    /\ H_RH = 0
    /\ prev = NoRun
    /\ web = NoWeb
    /\ sms = ""
    /\ steps = <<>>
    /\ cycle_bus = <<>>
    /\ raw_ret = ""
    /\ s_net_ready = FALSE
    /\ s_time_ready = FALSE
    /\ InitAux

NextComp ==
    \/ \E burst \in CompBursts(calib) : bme280_read_raw(burst)
    \/ CompT
    \/ CompP
    \/ CompH
    \/ web_set_readings
    \/ vTaskDelayUntil
    \/ AlertGate

SpecComp == InitComp /\ [][NextComp]_vars

\* ================================================================ claims
\* What a finished call did: the text it sent, "none" when it sent nothing.
Outcome == IF sent = <<>> THEN "none" ELSE sent[1]

\* The decision table of the alert policy, thresholds in tenths of a degree.
Table(T, warnOpen, alertOpen) ==
    IF T <= 150 /\ alertOpen THEN "Cold Alert"
    ELSE IF 150 < T /\ T <= 165 /\ warnOpen THEN "Cold Warning"
    ELSE IF 285 <= T /\ T < 300 /\ warnOpen THEN "Hot Warning"
    ELSE IF T >= 300 /\ alertOpen THEN "Hot Alert"
    ELSE "none"

WarnBand(T) == (150 < T /\ T <= 165) \/ (285 <= T /\ T < 300)
AlertBand(T) == T <= 150 \/ T >= 300
WarnTexts == {"Cold Warning", "Hot Warning"}
AlertTexts == {"Cold Alert", "Hot Alert"}

\* The warn-gate as the call found it when it tested the band T lies in
\* (the first if for the cold side, the third for the hot side), and the
\* alert-gate likewise (second and fourth if).
WarnSeenOpen == IF T_C <= 165 THEN rd[1] = "open" ELSE rd[3] = "open"
AlertSeenOpen == IF T_C <= 150 THEN rd[2] = "open" ELSE rd[4] = "open"

\* C1: a finished call of sms_eval_alert(T) has sent exactly what the table
\* gives for T and the gates as the call read them; when no expiry callback
\* ran during the call these are the gates at its entry.
C1_DecisionTable ==
    pc = "ret" =>
        /\ Outcome = Table(T_C, WarnSeenOpen, AlertSeenOpen)
        /\ cbRan = {} => Outcome = Table(T_C, ~gate0[1], ~gate0[2])

\* A call at T = Cold_Warn = 16.5 with the warn-gate open sent the cold warning.
C1_Witness ==
    pc = "ret" /\ T_C = 165 /\ ~gate0[1] /\ sent = <<"Cold Warning">>

\* C2: one call sends at most one notification, closes at most one gate and
\* arms at most one timer.
C2_AtMostOne ==
    /\ Len(sent) <= 1
    /\ Cardinality(closed) <= 1
    /\ Cardinality(armed) <= 1

\* A call that sent one hot alert, closed the alert gate and armed timer B
\* while the warn-gate was open too.
C2_Witness ==
    /\ pc = "ret" /\ T_C = 300 /\ gate0 = <<FALSE, FALSE>>
    /\ Len(sent) = 1 /\ closed = {"B"} /\ armed = {"B"}

\* A cooldown is running from the arming of its timer until its expiry
\* callback has run.
CooldownRunning(tid) == timers[tid].armed \/ timers[tid].dispatched > 0

\* C3: while the cooldown of a class runs its gate is closed, and a call with
\* T in that class's band that is entered with the gate closed and during
\* which the expiry callback does not run sends nothing; a call entered with
\* the gate open (never fired, or timer expired) sends the notification.  The
\* cooldown armed for a warning is 30 minutes, for an alert 60 minutes.
C3_CooldownSuppression ==
    /\ CooldownRunning("A") => a_tick
    /\ CooldownRunning("B") => b_tick
    /\ (pc = "send" /\ msg \in WarnTexts) => timers["A"].left = Resolution
    /\ (pc = "send" /\ msg \in AlertTexts) => timers["B"].left = 2 * Resolution
    /\ (pc = "ret" /\ WarnBand(T_C)) =>
          /\ (gate0[1] /\ "A" \notin cbRan) => sent = <<>>
          /\ ~gate0[1] => (Len(sent) = 1 /\ sent[1] \in WarnTexts)
    /\ (pc = "ret" /\ AlertBand(T_C)) =>
          /\ (gate0[2] /\ "B" \notin cbRan) => sent = <<>>
          /\ ~gate0[2] => (Len(sent) = 1 /\ sent[1] \in AlertTexts)

\* A call at 16.2 degrees made while timer A counts down sent nothing.
C3_Witness ==
    /\ pc = "ret" /\ T_C = 162 /\ gate0[1]
    /\ timers["A"].armed /\ timers["A"].left > 0
    /\ sent = <<>>

\* A step of the polling task inside the body of a warning (resp. an alert).
EvalStepOf(tid) ==
    /\ pc \in {"close", "arm", "send"}
    /\ GateOf(k) = tid
    /\ pc' # pc

\* C4: a call with T in an alert band entered with the alert-gate open sends
\* the alert whatever the warn-gate is, a call with T in a warning band
\* entered with the warn-gate open sends the warning whatever the alert-gate
\* is, and the body of a warning leaves b_tick and timer B alone, the body of
\* an alert a_tick and timer A.
C4_GatesIndependent ==
    /\ [](pc = "ret" /\ AlertBand(T_C) /\ ~gate0[2] => Outcome \in AlertTexts)
    /\ [](pc = "ret" /\ WarnBand(T_C) /\ ~gate0[1] => Outcome \in WarnTexts)
    /\ [][EvalStepOf("A") => b_tick' = b_tick /\ timers'["B"] = timers["B"]]_vars
    /\ [][EvalStepOf("B") => a_tick' = a_tick /\ timers'["A"] = timers["A"]]_vars

\* A hot alert at 31.0 degrees sent while the warning cooldown is running.
C4_Witness ==
    /\ pc = "ret" /\ T_C = 310 /\ gate0 = <<TRUE, FALSE>>
    /\ a_tick /\ timers["A"].armed
    /\ sent = <<"Hot Alert">>

\* The esp_timer task runs the callback of a dispatched expiry.
CallbackRuns(tid) ==
    /\ timers'[tid].dispatched < timers[tid].dispatched
    /\ pc' = pc

\* C5: a gate goes from closed to open only in a step that runs the expiry
\* callback of its own timer; no step of sms_eval_alert opens a gate.
C5_OnlyExpiryReopens ==
    /\ [][(a_tick /\ ~a_tick') => CallbackRuns("A")]_vars
    /\ [][(b_tick /\ ~b_tick') => CallbackRuns("B")]_vars
    /\ [][pc' # pc => (a_tick => a_tick') /\ (b_tick => b_tick')]_vars

\* A call with an in-range temperature (20.0) returned and both gates, closed
\* before it, are still closed.
C5_Witness ==
    /\ pc = "ret" /\ T_C = 200 /\ gate0 = <<TRUE, TRUE>>
    /\ a_tick /\ b_tick

\* Gate and timer of the body the call is in.
BodyGateClosed == Tick(GateOf(k))
BodyTimerFull ==
    /\ timers[GateOf(k)].armed
    /\ timers[GateOf(k)].left = DurationOf(k)

RunsToCompletion(tid) ==
    timers[tid].armed =>
        \/ /\ timers'[tid].armed
           /\ timers'[tid].left \in {timers[tid].left, timers[tid].left - 1}
           /\ timers'[tid].dispatched = timers[tid].dispatched
        \/ /\ timers[tid].left = 0
           /\ ~timers'[tid].armed
           /\ timers'[tid].dispatched = timers[tid].dispatched + 1

\* C7: no step stops or deletes an armed timer, and every closed gate is
\* eventually open again.
C7_RunsToCompletion ==
    /\ [][RunsToCompletion("A") /\ RunsToCompletion("B")]_vars
    /\ a_tick ~> ~a_tick
    /\ b_tick ~> ~b_tick

\* Timer B has run its full hour and its callback is about to reopen the gate.
C7_Witness ==
    /\ b_tick /\ ~timers["B"].armed /\ timers["B"].dispatched = 1

\* C9: the step that runs callback_timer_A leaves a_tick open and b_tick and
\* both handles as they were; callback_timer_B likewise for b_tick.
C9_CallbackFrame ==
    /\ [][CallbackRuns("A") =>
            ~a_tick' /\ b_tick' = b_tick
            /\ a_handle' = a_handle /\ b_handle' = b_handle]_vars
    /\ [][CallbackRuns("B") =>
            ~b_tick' /\ a_tick' = a_tick
            /\ a_handle' = a_handle /\ b_handle' = b_handle]_vars

\* callback_timer_A ran between two statements of a call that then closed
\* the alert gate: the warn flag is open, the alert flag still closed.
C9_Witness ==
    /\ pc = "arm" /\ GateOf(k) = "B" /\ "A" \in cbRan
    /\ ~a_tick /\ b_tick /\ gate0[1]

\* C10: once the identity register has been read as something other than
\* 0x60, the read of 0xD0 is the only transaction the bus ever sees (no
\* second read, no reset write, no status poll, no configuration write),
\* bme280_init returns ESP_FAIL and app_main goes nowhere but to its abort.
C10_IdMismatchFails ==
    (app_pc # "init_read_id" /\ id # 96) =>
        /\ bus = << [op |-> "read", reg |-> 208, arg |-> 1] >>
        /\ polls = 0
        /\ app_pc \in {"init_check_id", "init_done", "abort"}
        /\ app_pc = "init_done" => init_ret = ESP_FAIL

\* A BMP280 (chip id 0x58) answered: bme280_init has returned ESP_FAIL and
\* app_main has aborted.
C10_Witness ==
    app_pc = "abort" /\ id = 88 /\ init_ret = ESP_FAIL /\ Len(bus) = 1

\* The status reads of bme280_init that the bus log holds.
StatusReads == {i \in 1 .. Len(bus) : bus[i] = i2c_read_bytes(BME280_REG_STATUS, 1)}

\* C11: bme280_init goes through its steps in order and skips none: the
\* reset write is the second transaction, after a read of the id register
\* that gave BME280_CHIP_ID; the settle delay is taken after the reset write
\* and before the first status poll; and bme280_init returns ESP_OK only
\* after a status read that found bit 0 clear.
C11_InitOrder ==
    /\ Len(bus) >= 1 => bus[1] = i2c_read_bytes(BME280_REG_ID, 1)
    /\ Len(bus) >= 2 =>
          /\ id = BME280_CHIP_ID
          /\ bus[2] = i2c_write_u8(BME280_REG_RESET, BME280_RESET_CMD)
    /\ app_pc = "init_settle" => Len(bus) = 2 /\ ~settled
    /\ settled => Len(bus) >= 2
    /\ polls >= 1 => settled
    /\ \A i \in StatusReads : i >= 3 /\ i <= 2 + polls
    /\ init_ret = ESP_OK =>
          /\ polls >= 1
          /\ status % 2 = 0
          /\ 2 + polls \in StatusReads

\* bme280_init has returned ESP_OK after two polls, the first of which
\* found the device still copying.
C11_Witness ==
    /\ app_pc = "init_done" /\ init_ret = ESP_OK /\ polls = 2
    /\ Len(bus) = 4 /\ settled

\* C12: the calibration-ready poll has no iteration cap.  While the last
\* status read succeeded with bit 0 set, bme280_init has not returned and
\* its next step (the delay, then another poll) can always be taken,
\* whatever the number of polls done; a poll that succeeds with bit 0 clear
\* makes it return ESP_OK; and when the device does clear the bit,
\* bme280_init ends: it returns ESP_OK, unless a status read failed.
C12_PollUnbounded ==
    /\ [](polls >= 1 /\ status % 2 = 1 /\ app_pc # "abort" =>
             /\ app_pc \in {"init_wait", "init_poll"}
             /\ init_ret = "")
    /\ [](app_pc = "init_wait" => ENABLED PollDelay)
    /\ [](app_pc = "init_poll" => ENABLED PollStatus)
    /\ [][app_pc = "init_poll" /\ app_pc' \notin {"init_wait", "abort"} =>
             /\ status' % 2 = 0
             /\ init_ret' = ESP_OK
             /\ app_pc' = "init_done"]_vars
    /\ (app_pc = "init_poll") ~> (init_ret = ESP_OK \/ app_pc = "abort")

\* MaxPolls polls in a row have found the bit set and the loop goes on.
C12_Witness ==
    app_pc = "init_wait" /\ polls = MaxPolls /\ status % 2 = 1 /\ init_ret = ""

\* bme280_init, bme280_read_calibration and bme280_config_normal have each
\* run to their end, in this order and without a failed transaction.
BringUpDone ==
    /\ init_ret = ESP_OK
    /\ id = BME280_CHIP_ID
    /\ polls >= 1
    /\ bus = << i2c_read_bytes(BME280_REG_ID, 1),
                i2c_write_u8(BME280_REG_RESET, BME280_RESET_CMD) >>
             \o [i \in 1 .. polls |-> i2c_read_bytes(BME280_REG_STATUS, 1)]
             \o << i2c_read_bytes(CALIB_BLOCK1, CALIB_LEN1),
                   i2c_read_bytes(CALIB_BLOCK2, CALIB_LEN2),
                   i2c_write_u8(CTRL_HUM, CTRL_VAL1),
                   i2c_write_u8(CTRL_MEAS, CTRL_VAL2),
                   i2c_write_u8(CTRL_CONF, CTRL_VAL3) >>
    /\ calib = DecodeBlock2(DecodeBlock1(ZeroCalib, dev.blk1), dev.blk2)

\* app_main is inside its while (1) loop.
InLoop ==
    app_pc \in {"loop", "comp_T", "comp_P", "comp_H", "publish", "delay",
                "gate", "in_eval"}

\* Something of a polling cycle has happened: a raw read was issued, a value
\* was unpacked or compensated, a reading was published, or the alert
\* evaluator was called.
ReadingTouched ==
    \/ steps # <<>>
    \/ cycle_bus # <<>>
    \/ raw_ret # ""
    \/ d # <<>>
    \/ t_fine # 0
    \/ main_T_C # NoArg
    \/ P_in # NoReading
    \/ H_in # NoReading
    \/ web # NoWeb
    \/ pc # "idle"

\* C13: the polling loop is entered, and a raw sample is read, compensated
\* or published, only after bme280_init, bme280_read_calibration and
\* bme280_config_normal have each succeeded, in that order; when one of them
\* fails the program is aborted with no reading produced.
C13_BringUpFirst ==
    /\ (InLoop \/ ReadingTouched) => BringUpDone
    /\ (app_pc = "abort" /\ ~BringUpDone) => ~ReadingTouched
    /\ init_ret = ESP_FAIL => app_pc \in {"init_done", "abort"}

\* A reading has been published after a bring-up that polled twice.
C13_Witness ==
    /\ app_pc = "delay" /\ web # NoWeb /\ polls = 2
    /\ steps = SubSeq(Pipeline, 1, 5)

\* C14: a transport error of the per-cycle raw read ends that cycle only:
\* the one burst read is not repeated, nothing is compensated, published or
\* evaluated in the cycle, and app_main is back at the top of its loop, where
\* the next periodic poll reads the sensor again.
C14_RawErrorDropsCycle ==
    raw_ret \notin {"", ESP_OK} =>
        /\ cycle_bus = <<i2c_read_bytes(RAW_BLOCK, RAW_LEN)>>
        /\ steps = <<"read_raw">>
        /\ app_pc = "loop"

\* The reading of the current iteration has been published.
Published ==
    /\ app_pc = "delay"
    /\ steps = SubSeq(Pipeline, 1, 5)
    /\ web.T = BME280_compensate_T_double(calib, AdcOf(d).adc_T)

\* C15: an error returned by sms_eval_alert does not stop the polling loop.
\* The step that takes the result stores it in sms, logs it when it is not
\* ESP_OK and ends the iteration; and from there the next iteration begins:
\* it reads the sensor and, the read having succeeded, compensates and
\* publishes the new sample.
C15_ErrorDoesNotBlock ==
    /\ [][app_pc = "in_eval" /\ app_pc' # "in_eval" =>
             /\ app_pc' = "loop"
             /\ sms' = ret
             /\ steps' = IF ret # ESP_OK THEN Append(steps, "log") ELSE steps]_vars
    /\ (app_pc = "in_eval" /\ pc = "ret" /\ ret # ESP_OK)
          ~> (app_pc = "loop" /\ sms \notin {"", ESP_OK}
              /\ steps = Append(Pipeline, "log"))
    /\ (app_pc = "loop" /\ sms \notin {"", ESP_OK})
          ~> (Published \/ (app_pc = "abort" /\ raw_ret # ESP_OK))

\* A sample has been published in the iteration after a call that returned
\* ESP_FAIL.
C15_Witness ==
    Published /\ sms = ESP_FAIL /\ sent # <<>>

\* C16: in every iteration the temperature is compensated before pressure
\* and humidity, and the t_fine that the pressure and the humidity
\* compensation read is the one computed from the adc_T of the raw sample
\* of the same iteration.
C16_TFineOfSameSample ==
    /\ \A i \in 1 .. Len(steps) : i <= Len(Pipeline) => steps[i] = Pipeline[i]
    /\ Len(steps) >= 2 =>
          /\ raw_T = AdcOf(d).adc_T
          /\ t_fine = TFine(calib, raw_T)
    /\ Len(steps) >= 3 => P_in = [adc |-> raw_P, t_fine |-> TFine(calib, raw_T)]
    /\ Len(steps) >= 4 => H_in = [adc |-> raw_H, t_fine |-> TFine(calib, raw_T)]

\* Pressure and humidity of a second sample, at another temperature than
\* the one published before, have been compensated.
C16_Witness ==
    /\ app_pc = "publish" /\ Len(steps) = 4
    /\ web # NoWeb /\ web.T # main_T_C
    /\ H_in.t_fine = t_fine /\ web.H.t_fine # t_fine

\* Calls of sms_eval_alert made in the current iteration.
EvalCalls == {i \in 1 .. Len(steps) : steps[i] = "eval"}

\* C17: an iteration calls sms_eval_alert at most once, after its
\* compensation (and its publication and delay), and with the temperature
\* compensated from the raw sample of that iteration.
C17_EvalOncePerCycle ==
    /\ [](Cardinality(EvalCalls) <= 1)
    /\ [](pc # "idle" =>
             /\ app_pc = "in_eval"
             /\ SubSeq(steps, 1, Len(Pipeline)) = Pipeline
             /\ s_time_ready /\ s_net_ready
             /\ T_C = main_T_C
             /\ T_C = BME280_compensate_T_double(calib, AdcOf(d).adc_T))
    /\ [][pc = "idle" /\ pc' # "idle" =>
             /\ steps = SubSeq(Pipeline, 1, Len(Pipeline) - 1)
             /\ steps' = Pipeline]_vars

\* The call of an iteration whose sample reads ALERT_HIGH_C is sending.
C17_Witness ==
    /\ pc = "send" /\ app_pc = "in_eval" /\ T_C = ALERT_HIGH_C
    /\ web.T = ALERT_HIGH_C /\ msg = "Hot Alert"

\* bme280_read_calibration has decoded both blocks.
Decoded == app_pc = "config_1"

\* The packed 12-bit fields of the second block, by arithmetic: byte 0xE4
\* with the low nibble of 0xE5, and byte 0xE6 with the high nibble of 0xE5.
PackedH4 == dev.blk2[4] * 16 + (dev.blk2[5] % 16)
PackedH5 == dev.blk2[6] * 16 + (dev.blk2[5] \div 16)

\* The value of a 12-bit two's complement number.
Signed12(v) == IF v < 2048 THEN v ELSE v - 4096

\* C18: for every v in 0 .. 4095 sign_extend_12(v) lies in -2048 .. 2047,
\* is v below 2048 and v - 4096 from 2048 on, and its low 12 bits are v
\* again.  (raw_h4 takes every value of 0 .. 4095 over SampleDevices, and so
\* does raw_h5.)
C18_SignExtend ==
    Decoded =>
        \A f \in {<<raw_h4(dev.blk2), calib.dig_H4>>,
                  <<raw_h5(dev.blk2), calib.dig_H5>>} :
            /\ f[1] \in 0 .. 4095
            /\ f[2] = sign_extend_12(f[1])
            /\ f[2] \in -2048 .. 2047
            /\ f[2] = Signed12(f[1])
            /\ f[2] % 4096 = f[1]

\* raw_h4 = 0x800, the smallest negative value, has been extended to -2048.
C18_Witness ==
    Decoded /\ raw_h4(dev.blk2) = 2048 /\ calib.dig_H4 = -2048

\* Two bytes as a little-endian word, unsigned and as two's complement.
Unsigned16(lo, hi) == lo + 256 * hi
Signed16(lo, hi) == IF hi >= 128 THEN lo + 256 * hi - 65536 ELSE lo + 256 * hi

\* Values written into the reserved register 0xA0.
ReservedValues == {0, 255} \cup {Mixed(j) : j \in Nibble}

\* C19: the humidity block is unpacked as raw_h4 = (b[3] << 4) | (b[4] & 0x0F)
\* and raw_h5 = (b[5] << 4) | (b[4] >> 4), both within 0 .. 4095 and
\* sign-extended into dig_H4 and dig_H5; every 16-bit coefficient is its
\* two bytes taken little-endian (dig_T1 and dig_P1 unsigned, the others
\* signed); and byte 24 of the first block reaches no coefficient.
C19_CalibDecode ==
    Decoded =>
        LET b == dev.blk1
            h == dev.blk2
        IN /\ raw_h4(h) = PackedH4 /\ PackedH4 \in 0 .. 4095
           /\ raw_h5(h) = PackedH5 /\ PackedH5 \in 0 .. 4095
           /\ calib.dig_H4 = Signed12(PackedH4)
           /\ calib.dig_H5 = Signed12(PackedH5)
           /\ calib.dig_T1 = Unsigned16(b[1], b[2])
           /\ calib.dig_T2 = Signed16(b[3], b[4])
           /\ calib.dig_T3 = Signed16(b[5], b[6])
           /\ calib.dig_P1 = Unsigned16(b[7], b[8])
           /\ calib.dig_P2 = Signed16(b[9], b[10])
           /\ calib.dig_P3 = Signed16(b[11], b[12])
           /\ calib.dig_P4 = Signed16(b[13], b[14])
           /\ calib.dig_P5 = Signed16(b[15], b[16])
           /\ calib.dig_P6 = Signed16(b[17], b[18])
           /\ calib.dig_P7 = Signed16(b[19], b[20])
           /\ calib.dig_P8 = Signed16(b[21], b[22])
           /\ calib.dig_P9 = Signed16(b[23], b[24])
           /\ calib.dig_H2 = Signed16(h[1], h[2])
           /\ \A x \in ReservedValues :
                 DecodeBlock2(DecodeBlock1(ZeroCalib, [b EXCEPT ![25] = x]), h)
                     = calib

\* A device whose dig_T2 and dig_H5 are negative and whose dig_H4 is not.
C19_Witness ==
    /\ Decoded
    /\ calib.dig_T2 < 0 /\ calib.dig_H5 < 0 /\ calib.dig_H4 > 0
    /\ dev.blk1[25] # dev.blk1[26]

\* C20: bme280_read_raw issues exactly one burst read of 8 bytes at 0xF7
\* and returns adc_P = (d[0] << 12) | (d[1] << 4) | (d[2] >> 4),
\* adc_T = (d[3] << 12) | (d[4] << 4) | (d[5] >> 4) and
\* adc_H = (d[6] << 8) | d[7], the first two within 0 .. 2^20 - 1 and the
\* third within 0 .. 65535.
C20_RawUnpack ==
    raw_ret # "" =>
        /\ cycle_bus = <<[op |-> "read", reg |-> 247, arg |-> 8]>>
        /\ raw_ret = ESP_OK =>
              /\ Len(d) = 8
              /\ raw_P = d[1] * 4096 + d[2] * 16 + (d[3] \div 16)
              /\ raw_T = d[4] * 4096 + d[5] * 16 + (d[6] \div 16)
              /\ raw_H = d[7] * 256 + d[8]
              /\ raw_P \in 0 .. 2^20 - 1
              /\ raw_T \in 0 .. 2^20 - 1
              /\ raw_H \in 0 .. 65535

\* A burst with P_msb = 0xFF and T_msb = 0 has been unpacked.
C20_Witness ==
    /\ raw_ret = ESP_OK /\ app_pc = "comp_T"
    /\ d[1] = 255 /\ raw_P >= 2^20 - 4096 /\ raw_T < 4096 /\ (d[3] % 16) # (d[3] \div 16)

\* ---------------------------------------------------------------- C21
\* The value bme280_compensate_H_double computed before its two tests, for
\* the inputs it read last.
HumidityBefore == HUnclamped(calib, H_in.adc, H_in.t_fine)

\* C21: whatever the coefficients, t_fine and the raw humidity are, the
\* humidity returned lies between 0 and 100 percent: a computed value above
\* 100 is returned as 100 and one below 0 as 0.
C21_HumidityClamped ==
    /\ H_RH >= 0
    /\ H_RH <= HFull
    /\ H_in # NoReading =>
          /\ HumidityBefore > HFull => H_RH = HFull
          /\ HumidityBefore < 0 => H_RH = 0

\* A value below 0 has been returned as 0 in this iteration and one above
\* 100 as 100 in the iteration before.
C21_Witness ==
    /\ app_pc = "publish"
    /\ HumidityBefore < 0
    /\ H_RH = 0
    /\ prev # NoRun
    /\ HUnclamped(calib, prev.raw[3], prev.t_fine) > HFull
    /\ prev.out[3] = HFull

\* ---------------------------------------------------------------- C22
\* The divisor of BME280_compensate_P_double for the inputs it read last.
PressureDivisor == PVar1(calib, P_in.t_fine)

\* C22: the pressure formula never divides by zero: whenever its var1 is
\* exactly 0 (dig_P1 = 0 is one way) it returns 0, whatever adc_P and
\* t_fine are, and what it returns is always a finite number.
C22_NoDivisionByZero ==
    /\ P_Pa # NotFinite
    /\ P_in # NoReading /\ PressureDivisor = 0 => P_Pa = 0

\* var1 is 0 although dig_P1 is not, and 0 has been returned; the iteration
\* before, on the same device, went through the division.
C22_Witness ==
    /\ app_pc = "comp_H"
    /\ calib.dig_P1 # 0
    /\ PressureDivisor = 0
    /\ P_Pa = 0
    /\ prev # NoRun
    /\ PVar1(calib, prev.t_fine) # 0
    /\ prev.out[2] # 0

\* ---------------------------------------------------------------- C23
\* The raw sample of the current iteration and what the engine made of it.
RawSample == <<raw_T, raw_P, raw_H>>
EngineOutputs == <<main_T_C, P_Pa, H_RH>>

\* The current iteration has run T, P and H on the sample of the iteration
\* before it.
SameSampleAgain ==
    /\ app_pc = "publish"
    /\ prev # NoRun
    /\ prev.raw = RawSample

\* C23: running T, then P, then H a second time on the same coefficients
\* and the same raw sample gives the same three outputs and the same
\* t_fine; the pressure and humidity steps leave t_fine and calib as they
\* are, and the temperature step leaves calib as it is.
C23_EngineIdempotent ==
    /\ [](SameSampleAgain =>
             /\ EngineOutputs = prev.out
             /\ t_fine = prev.t_fine)
    /\ [][/\ (app_pc \in {"comp_P", "comp_H"} /\ app_pc' # app_pc) =>
                (t_fine' = t_fine /\ calib' = calib)
          /\ (app_pc = "comp_T" /\ app_pc' # app_pc) => calib' = calib]_vars

\* A second run on the same sample, with a pressure that went through the
\* division and a humidity that was not clamped.
C23_Witness ==
    /\ SameSampleAgain
    /\ EngineOutputs = prev.out
    /\ P_Pa # 0
    /\ H_RH > 0
    /\ H_RH < HFull

\* ---------------------------------------------------------------- C24
\* The command link of the transaction the call has run.
Link == begun[1].link

\* The bytes a link reads, and the positions of its entries of one kind.
RECURSIVE BytesRead(_)
BytesRead(l) ==
    IF l = <<>> THEN 0
    ELSE (IF Head(l).op = "read" THEN Head(l).n ELSE 0) + BytesRead(Tail(l))
Positions(l, op) == {i \in 1 .. Len(l) : l[i].op = op}

\* C24: for every read of len >= 1, i2c_read_bytes runs one transaction:
\* start, address with the write bit, register, a second start with no stop
\* before it, address with the read bit, len - 1 bytes answered with ACK,
\* the last byte answered with NACK, one stop at the end; and the call
\* returns the status of that transaction, so that a timeout or a bus error
\* comes back as an error.
C24_ReadTransaction ==
    /\ Len(begun) <= 1
    /\ begun # <<>> =>
          /\ rd_arg.len >= 1
          /\ SubSeq(Link, 1, 5) =
                << I2cStart,
                   I2cWriteByte(2 * rd_arg.device_addr),
                   I2cWriteByte(rd_arg.register_addr),
                   I2cStart,
                   I2cWriteByte(2 * rd_arg.device_addr + 1) >>
          /\ Positions(Link, "stop") = {Len(Link)}
          /\ Positions(Link, "start") = {1, 4}
          /\ Positions(Link, "read") = 6 .. (Len(Link) - 1)
          /\ BytesRead(Link) = rd_arg.len
          /\ \A i \in Positions(Link, "read") :
                IF i = Len(Link) - 1
                THEN Link[i] = I2cRead(rd_arg.len - 1, 1, "NACK")
                ELSE Link[i] = I2cRead(0, rd_arg.len - 1, "ACK")
          /\ Len(Link) = IF rd_arg.len > 1 THEN 8 ELSE 7
    /\ rd_ret # "" => (begun # <<>> /\ rd_ret = begun[1].ret)

\* A read of more than one byte has returned the timeout of its
\* transaction.
C24_Witness ==
    /\ rd_pc = "idle"
    /\ rd_arg.len = RAW_LEN
    /\ Len(begun) = 1
    /\ begun[1].ret = ESP_ERR_TIMEOUT
    /\ rd_ret = ESP_ERR_TIMEOUT

\* ---------------------------------------------------------------- C25
\* Timer tid is neither counting down nor waiting for its callback.
TimerIdle(tid) == ~timers[tid].armed /\ timers[tid].dispatched = 0

\* C25: in every reachable state, whatever the interleaving of the polling
\* task with the timer task, a gate that is open has a timer that is not
\* counting down; so the evaluator, which arms only after it read the gate
\* open and closed it, never arms a running timer, and no expiry of an
\* earlier arming is left to reopen the gate it has just closed.
C25_OpenGateTimerIdle ==
    /\ \A tid \in TimerIds : ~Tick(tid) => TimerIdle(tid)
    /\ pc = "arm" => TimerIdle(GateOf(k))

\* The evaluator is about to arm the warning timer for a gate that was
\* closed when the call was entered and that the callback reopened during
\* the call.
C25_Witness ==
    /\ pc = "arm"
    /\ GateOf(k) = "A"
    /\ gate0[1]
    /\ "A" \in cbRan
    /\ a_tick
    /\ TimerIdle("A")

\* ---------------------------------------------------------------- C26
\* The if of the other band of the same class, and the gate of the class.
Partner(i) == CASE i = 1 -> 3 [] i = 2 -> 4 [] i = 3 -> 1 [] i = 4 -> 2
ClassGate(i) == IF i \in {1, 3} THEN "A" ELSE "B"
TextsSent == {sent[x] : x \in 1 .. Len(sent)}

\* The call is for a temperature in band i while the gate of its class is
\* closed by the body of the other band of that class.
ClosedByPartner(i) ==
    /\ T_C # NoArg
    /\ TempCond(i, T_C)
    /\ closer[ClassGate(i)] = Partner(i)

\* C26: cold and hot of one class share one gate.  While the warning gate is
\* closed by a cold warning, a hot warning is suppressed, and the other way
\* round; while the alert gate is closed by a cold alert (its 60-minute
\* cooldown), a hot alert is suppressed, and the other way round: the call
\* reads the gate closed, sends nothing, closes and arms nothing.
C26_SharedGate ==
    \A i \in 1 .. 4 :
        ClosedByPartner(i) =>
            /\ Tick(ClassGate(i))
            /\ TextOf(i) \notin TextsSent
            /\ rd[i] \in {"", "closed"}
            /\ pc = "ret" =>
                  /\ rd[i] = "closed"
                  /\ sent = <<>>
                  /\ closed = {}
                  /\ armed = {}

\* A hot warning has been suppressed by the gate a cold warning closed,
\* while the alert gate was open.
C26_Witness ==
    /\ pc = "ret"
    /\ ClosedByPartner(3)
    /\ rd[3] = "closed"
    /\ ~b_tick
    /\ sent = <<>>

\* ---------------------------------------------------------------- C27
\* Both flags are set.
Ready == s_net_ready /\ s_time_ready

\* app_main has set its flags and is in or on the way to the polling loop.
FlagsSet == app_pc \notin {"wait_ip", "wait_time", "set_net", "set_time"}

\* C27: the two flags are assigned once, after the bounded startup wait,
\* and never change afterwards.  If either is false at that point,
\* sms_eval_alert is not called in any later cycle, even when network or
\* clock become ready later; if both are true, every cycle that reaches
\* the end of its delay calls it.
C27_ReadyFixedAtStartup ==
    /\ [](FlagsSet /\ ~Ready =>
             /\ pc = "idle"
             /\ app_pc # "in_eval"
             /\ \A x \in 1 .. Len(steps) : steps[x] # "eval")
    /\ [](wait_i <= TIME_WAIT_POLLS
          /\ (app_pc = "wait_ip" => wait_i <= IP_WAIT_POLLS))
    /\ [][/\ s_net_ready' # s_net_ready => app_pc = "set_net"
          /\ s_time_ready' # s_time_ready => app_pc = "set_time"
          /\ FlagsSet => FlagsSet'
          /\ (app_pc = "gate" /\ app_pc' # "gate") =>
                (app_pc' = "in_eval" <=> Ready)
          /\ (app_pc = "gate" /\ app_pc' = "in_eval") =>
                (pc' = "entry" /\ T_C' = main_T_C)]_vars

\* A cycle has ended without a call although network and clock are ready
\* now: the network was not when the flag was set, after the full wait.
C27_Witness ==
    /\ app_pc = "loop"
    /\ steps = <<"read_raw", "T", "P", "H", "publish", "delay">>
    /\ ~s_net_ready
    /\ s_time_ready
    /\ net_up
    /\ time_ok

\* ---------------------------------------------------------------- C28
\* C28: in fetch_outside_current the buffer has room for the next chunk
\* before every read: at each esp_http_client_read of CHUNK bytes,
\* total + CHUNK + 1 <= cap, for every initial capacity; and buf[total] is
\* inside the buffer when the 0 is written.
C28_RoomBeforeRead ==
    /\ \A x \in 1 .. Len(reads) : reads[x].total + CHUNK + 1 <= reads[x].cap
    /\ f_pc = "terminate" => total < cap

====
